---- MODULE Spec2Model ----
(***************************************************************************)
(* Persona pipelines of the repository: a sequence of persona prompts is   *)
(* applied to an input document, each persona's output being folded into   *)
(* the context of the following ones.  The module models                   *)
(*   - PersonaWorkflow            (persona_workflow.py)                    *)
(*   - AdvancedPersonaWorkflow    (advanced_persona_workflow.py)           *)
(*   - AdvancedWorkflowEngine     (advanced_workflow.py)                   *)
(*   - PersonaManager / WorkflowEngine / api          (src/personas.py,    *)
(*     src/workflow_engine.py, src/api.py)                                 *)
(*   - SimplePersonaManager / SimpleWorkflowEngine (src/simplified_*.py)   *)
(*   - ChatSystem (src/chat_system.py) and SimpleChatSystem                *)
(*     (src/simplified_chat.py), the conversations about stored runs       *)
(* The Completion Client (the language model) is the environment: a call   *)
(* that has been issued either returns one of Replies or raises.           *)
(*                                                                         *)
(* Each of these is a program of its own (a script with a __main__, or a   *)
(* server): a process runs one of them, chosen in the initial state.       *)
(* Every method call is synchronous on one thread of control, so at most   *)
(* one activation exists at a time; the activation record of a call (its   *)
(* local variables, and a log of the prompts it sent) is kept until the    *)
(* next call on the same family of objects begins.                         *)
(***************************************************************************)
EXTENDS Integers, Sequences, FiniteSets, TLC

VARIABLES
    apw_personas,      \* AdvancedPersonaWorkflow.personas : id -> display name
    wf,                \* activation of PersonaWorkflow / AdvancedPersonaWorkflow .execute_workflow
    awe_personas,      \* AdvancedWorkflowEngine.personas : name -> parallel_processing
    workflow_history,  \* AdvancedWorkflowEngine.workflow_history
    aw,                \* activation of AdvancedWorkflowEngine.execute_workflow_async
    chat_memory,       \* AdvancedWorkflowEngine.chat_memory.chat_memory.messages
    chat_asked,        \* for each turn of chat_memory, the workflow results it was asked about
    cw,                \* activation of AdvancedWorkflowEngine.chat_with_output
    pm_personas,       \* PersonaManager.personas : id -> Persona
    we_workflows,      \* WorkflowEngine.workflows : id -> Workflow
    we_results,        \* WorkflowEngine.analysis_results : id -> AnalysisResult
    we,                \* activation of WorkflowEngine.execute_workflow
    spm_personas,      \* SimplePersonaManager.personas : id -> Persona
    swe_workflows,     \* SimpleWorkflowEngine.workflows
    swe_results,       \* SimpleWorkflowEngine.analysis_results
    swe,               \* activation of SimpleWorkflowEngine.execute_workflow
    chat_history,      \* ChatSystem.chat_history : analysis id -> list of ChatMessage
    conversation_memories, \* ChatSystem.conversation_memories : analysis id -> messages
    simple_chat_history,   \* SimpleChatSystem.chat_history
    ch,                \* activation of the chat system call of either server
    handlers,          \* api.py: the /chat/send requests received, each with the activation of its handler
    api,               \* last response of the HTTP boundary / registry call
    next_uuid,         \* number of uuid4() values drawn so far, by kind of object
    program            \* the program this process runs (which script or server was started)

vars == <<apw_personas, wf, awe_personas, workflow_history, aw,
          chat_memory, chat_asked, cw,
          pm_personas, we_workflows, we_results, we,
          spm_personas, swe_workflows, swe_results, swe,
          chat_history, conversation_memories, simple_chat_history, ch, handlers,
          api, next_uuid, program>>

scriptVars == <<apw_personas, wf, awe_personas, workflow_history, aw,
                chat_memory, chat_asked, cw>>
fullVars == <<pm_personas, we_workflows, we_results, we,
              chat_history, conversation_memories, handlers>>
simpleVars == <<spm_personas, swe_workflows, swe_results, swe, simple_chat_history>>

----------------------------------------------------------------------------
(* Bounds and input sets *)

\* longest persona sequence given to an execute / create call
MaxSeq == 3

\* documents given as input
Inputs == {"d1"}

\* texts the Completion Client can return ("j1" is a reply the structured
\* output parser of advanced_workflow.py accepts, "t1" is free text)
Replies == {"t1", "j1"}

SeqsUpTo(S, n) == UNION {[1..k -> S] : k \in 0..n}

\* Python dict
EmptyDict == [k \in {} |-> k]

Put(d, k, v) == [x \in (DOMAIN d) \cup {k} |-> IF x = k THEN v ELSE d[x]]

Del(d, k) == [x \in (DOMAIN d) \ {k} |-> d[x]]

----------------------------------------------------------------------------
(* PersonaWorkflow and AdvancedPersonaWorkflow: sequential text pipelines *)

\* the six built-in personas, id -> display name
DefaultPersonas ==
    [p \in {"risk_assessment", "claims_analysis", "compliance_review",
            "financial_analysis", "operational_excellence", "summary_only"} |->
        CASE p = "risk_assessment" -> "Risk Assessment Specialist"
          [] p = "claims_analysis" -> "Claims Analysis Expert"
          [] p = "compliance_review" -> "Compliance Review Officer"
          [] p = "financial_analysis" -> "Financial Analyst"
          [] p = "operational_excellence" -> "Operational Excellence Specialist"
          [] p = "summary_only" -> "Summary Specialist"]

\* persona names a caller puts into a sequence; "custom_review" is registered
\* only after add_persona
SeqNames == {"risk_assessment", "claims_analysis", "summary_only", "custom_review"}

\* personas given to add_persona
AddablePersonas == [id : {"custom_review"}, name : {"Custom Reviewer"}]

\* the templates holding an {input} placeholder; summary_only has {context} only
HasInputSlot(p) == p # "summary_only"

\* ChatPromptTemplate.from_template(t).format(input=.., context=..)
RenderPrompt(p, input, context) ==
    [persona |-> p,
     input   |-> IF HasInputSlot(p) THEN input ELSE "",
     context |-> context]

\* FoldContext with "=" in place of "+=": the context keeps the last block only
FoldContext_overwrite(context, name, response) ==
    <<[label |-> name, text |-> response]>>

\* context += f"\n{name} Analysis:\n{response}\n" : the text grows by one
\* labeled block at its end
FoldContext(context, name, response) ==
    Append(context, [label |-> name, text |-> response])

\* personas of the engine whose activation is r
PersonasOf(engine) ==
    IF engine = "PersonaWorkflow" THEN DefaultPersonas ELSE apw_personas

\* validate_workflow looking at the first name only
validate_workflow_first(seq) ==
    IF seq # <<>> /\ seq[1] \notin DOMAIN apw_personas THEN <<seq[1]>> ELSE <<>>

\* validate_workflow: one issue per unknown name, in sequence order
validate_workflow(seq) ==
    SelectSeq(seq, LAMBDA n : n \notin DOMAIN apw_personas)

BlankWf ==
    [engine |-> "none", pc |-> "idle", input |-> "", seq |-> <<>>, i |-> 1,
     context |-> <<>>, results |-> EmptyDict, prompts |-> <<>>, outs |-> <<>>,
     calls |-> 0, error |-> "none"]

BlankAw ==
    [pc |-> "idle", input |-> "", seq |-> <<>>,
     parallel_personas |-> <<>>, sequential_personas |-> <<>>, i |-> 1,
     context |-> EmptyDict, results |-> EmptyDict,
     started |-> <<>>, issued |-> <<>>, inflight |-> {}, maxInflight |-> 0,
     returned |-> <<>>, calls |-> 0, error |-> "none", history0 |-> <<>>]

\* no call of chat_with_output made yet
BlankCw ==
    [pc |-> "idle", message |-> "", workflow_results |-> EmptyDict,
     prompts |-> <<>>, calls |-> 0, error |-> "none"]

Busy(r) == r.pc \notin {"idle", "returned", "raised"}

\* no call is executing on the thread of control
ScriptIdle == ~Busy(wf) /\ ~Busy(aw) /\ ~Busy(cw)

\* AdvancedPersonaWorkflow.add_persona
add_persona(c) ==
    /\ program = "advanced_persona_workflow"
    /\ ScriptIdle
    /\ apw_personas' = Put(apw_personas, c.id, c.name)
    /\ wf' = BlankWf
    /\ aw' = BlankAw
    /\ UNCHANGED <<awe_personas, workflow_history>>
    /\ UNCHANGED <<fullVars, simpleVars, ch, api, next_uuid, program>>
    /\ UNCHANGED <<chat_memory, chat_asked>>
    /\ cw' = BlankCw

\* PersonaWorkflow.execute_workflow, entry: results = {}, context = ""
PW_execute_workflow(input, seq) ==
    /\ program = "persona_workflow"
    /\ ScriptIdle
    /\ wf' = [BlankWf EXCEPT !.engine = "PersonaWorkflow", !.pc = "loop",
                             !.input = input, !.seq = seq]
    /\ aw' = BlankAw
    /\ UNCHANGED <<apw_personas, awe_personas, workflow_history>>
    /\ UNCHANGED <<fullVars, simpleVars, ch, api, next_uuid, program>>
    /\ UNCHANGED <<chat_memory, chat_asked>>
    /\ cw' = BlankCw

\* AdvancedPersonaWorkflow.execute_workflow, entry: validation, then
\* results = {}, context = ""
APW_execute_workflow(input, seq) ==
    /\ program = "advanced_persona_workflow"
    /\ ScriptIdle
    /\ wf' = IF validate_workflow(seq) # <<>>
             THEN [BlankWf EXCEPT !.engine = "AdvancedPersonaWorkflow",
                                  !.pc = "raised", !.error = "ValueError",
                                  !.input = input, !.seq = seq]
             ELSE [BlankWf EXCEPT !.engine = "AdvancedPersonaWorkflow",
                                  !.pc = "loop", !.input = input, !.seq = seq]
    /\ aw' = BlankAw
    /\ UNCHANGED <<apw_personas, awe_personas, workflow_history>>
    /\ UNCHANGED <<fullVars, simpleVars, ch, api, next_uuid, program>>
    /\ UNCHANGED <<chat_memory, chat_asked>>
    /\ cw' = BlankCw

\* one iteration of the for loop up to chain.run: look the persona up, render
\* its template with the input and the context so far, send the prompt
Pipe_Step ==
    /\ wf.pc = "loop"
    /\ wf.i <= Len(wf.seq)
    /\ LET p == wf.seq[wf.i] IN
       wf' = IF p \notin DOMAIN PersonasOf(wf.engine)
             THEN [wf EXCEPT !.pc = "raised", !.error = "KeyError"]
             ELSE [wf EXCEPT !.pc = "calling",
                             !.prompts = Append(@, RenderPrompt(p, wf.input, wf.context)),
                             !.calls = @ + 1]
    /\ UNCHANGED <<apw_personas, awe_personas, workflow_history, aw>>
    /\ UNCHANGED <<fullVars, simpleVars, ch, api, next_uuid, program>>
    /\ UNCHANGED <<chat_memory, chat_asked, cw>>

\* chain.run returns: store the result, fold the output into the context
Pipe_Return(response) ==
    /\ wf.pc = "calling"
    /\ LET p == wf.seq[wf.i]
           name == PersonasOf(wf.engine)[p] IN
       wf' = [wf EXCEPT !.pc = "loop",
                        !.results = Put(@, p, [persona_name |-> name,
                                               analysis |-> response,
                                               step |-> wf.i]),
                        !.context = FoldContext(@, name, response),
                        !.outs = Append(@, response),
                        !.i = @ + 1]
    /\ UNCHANGED <<apw_personas, awe_personas, workflow_history, aw>>
    /\ UNCHANGED <<fullVars, simpleVars, ch, api, next_uuid, program>>
    /\ UNCHANGED <<chat_memory, chat_asked, cw>>

\* chain.run raises: nothing catches it, execute_workflow raises
Pipe_Fail ==
    /\ wf.pc = "calling"
    /\ wf' = [wf EXCEPT !.pc = "raised", !.error = "UpstreamFailure"]
    /\ UNCHANGED <<apw_personas, awe_personas, workflow_history, aw>>
    /\ UNCHANGED <<fullVars, simpleVars, ch, api, next_uuid, program>>
    /\ UNCHANGED <<chat_memory, chat_asked, cw>>

\* the loop is exhausted: return results
Pipe_Finish ==
    /\ wf.pc = "loop"
    /\ wf.i > Len(wf.seq)
    /\ wf' = [wf EXCEPT !.pc = "returned"]
    /\ UNCHANGED <<apw_personas, awe_personas, workflow_history, aw>>
    /\ UNCHANGED <<fullVars, simpleVars, ch, api, next_uuid, program>>
    /\ UNCHANGED <<chat_memory, chat_asked, cw>>

----------------------------------------------------------------------------
(* AdvancedWorkflowEngine: independent phase and sequential phase *)

\* persona names found in configuration files and prompt directories
AweNames == {"legal", "finance", "summary"}

\* most entries of workflow_history (a run begins only if its entries fit)
MaxHistory == 3

\* configuration files: a list of PersonaConfig each, here name -> parallel_processing
Configs ==
    {[n \in {"legal", "finance"} |-> TRUE],
     [n \in {"legal"} |-> TRUE]}

\* prompt directories: the names of their prompt files
PromptDirs == {AweNames}

\* PydanticOutputParser.parse(content), with the fallback of process_async
\* (confidence in tenths)
ParseOutput(content) ==
    IF content = "j1"
    THEN [analysis |-> "j1.analysis", confidence |-> 9,
          key_findings |-> <<"j1.finding">>, recommendations |-> <<"j1.rec">>]
    ELSE [analysis |-> content, confidence |-> 8,
          key_findings |-> <<content>>, recommendations |-> <<>>]

\* GroupOf taking the parallel group from the end of the sequence backwards
GroupOf_reversed(seq, flag) ==
    LET g == SelectSeq(seq, LAMBDA n : awe_personas[n] = flag)
    IN  IF flag THEN [k \in 1..Len(g) |-> g[Len(g) + 1 - k]] ELSE g

\* the names of seq whose persona has parallel_processing = flag, in the
\* order of seq
GroupOf(seq, flag) ==
    SelectSeq(seq, LAMBDA n : awe_personas[n] = flag)

\* load_personas_from_config
load_personas_from_config(cfg) ==
    /\ program = "advanced_workflow"
    /\ ScriptIdle
    /\ awe_personas' = [n \in (DOMAIN awe_personas) \cup (DOMAIN cfg) |->
                           IF n \in DOMAIN cfg THEN cfg[n] ELSE awe_personas[n]]
    /\ wf' = BlankWf
    /\ aw' = BlankAw
    /\ UNCHANGED <<apw_personas, workflow_history>>
    /\ UNCHANGED <<fullVars, simpleVars, ch, api, next_uuid, program>>
    /\ UNCHANGED <<chat_memory, chat_asked>>
    /\ cw' = BlankCw

\* load_personas_from_prompts_directory: one persona per prompt file,
\* parallel_processing keeps its default False
load_personas_from_prompts_directory(files) ==
    /\ program = "advanced_workflow"
    /\ ScriptIdle
    /\ awe_personas' = [n \in (DOMAIN awe_personas) \cup files |->
                           IF n \in files THEN FALSE ELSE awe_personas[n]]
    /\ wf' = BlankWf
    /\ aw' = BlankAw
    /\ UNCHANGED <<apw_personas, workflow_history>>
    /\ UNCHANGED <<fullVars, simpleVars, ch, api, next_uuid, program>>
    /\ UNCHANGED <<chat_memory, chat_asked>>
    /\ cw' = BlankCw

\* execute_workflow_async, lines 107-130: the grouping loop raises on the
\* first unknown name; the coroutines of the parallel personas are created
\* but none of them has started to run
AWE_execute_workflow_async(input, seq) ==
    /\ program = "advanced_workflow"
    /\ ScriptIdle
    /\ Len(workflow_history) + Len(seq) <= MaxHistory
    /\ aw' = IF \E k \in 1..Len(seq) : seq[k] \notin DOMAIN awe_personas
             THEN [BlankAw EXCEPT !.pc = "raised", !.error = "ValueError",
                                  !.input = input, !.seq = seq,
                                  !.history0 = workflow_history]
             ELSE [BlankAw EXCEPT !.pc = IF GroupOf(seq, TRUE) # <<>>
                                         THEN "parallel" ELSE "sequential",
                                  !.input = input, !.seq = seq,
                                  !.parallel_personas = GroupOf(seq, TRUE),
                                  !.sequential_personas = GroupOf(seq, FALSE),
                                  !.history0 = workflow_history]
    /\ wf' = BlankWf
    /\ UNCHANGED <<apw_personas, awe_personas, workflow_history>>
    /\ UNCHANGED <<fullVars, simpleVars, ch, api, next_uuid, program>>
    /\ UNCHANGED <<chat_memory, chat_asked>>
    /\ cw' = BlankCw

\* the persona list of the phase the activation is in
PhaseList(r) ==
    IF r.pc \in {"parallel", "calling_par"}
    THEN r.parallel_personas ELSE r.sequential_personas

\* process_async up to the await of llm.agenerate, run when its coroutine is
\* awaited: it reads the context dict as it is now.  An empty context is
\* rendered as "{}".  A context holding PersonaOutput values goes to
\* json.dumps, whose standard encoder has no case for them and raises
\* TypeError; the outcome of an encoder that does serialise them is kept as
\* the second branch.
process_async_begin ==
    /\ aw.pc \in {"parallel", "sequential"}
    /\ aw.i <= Len(PhaseList(aw))
    /\ LET p == PhaseList(aw)[aw.i]
           entered == [aw EXCEPT !.started =
                          Append(@, [persona |-> p, phase |-> aw.pc,
                                     context |-> aw.context,
                                     returned |-> Len(aw.returned)])]
           sent == [entered EXCEPT
                       !.pc = IF aw.pc = "parallel" THEN "calling_par" ELSE "calling_seq",
                       !.issued = Append(@, [persona |-> p, input |-> aw.input,
                                             context |-> aw.context]),
                       !.inflight = @ \cup {aw.calls + 1},
                       !.maxInflight = IF Cardinality(aw.inflight) + 1 > @
                                       THEN Cardinality(aw.inflight) + 1 ELSE @,
                       !.calls = @ + 1]
       IN  \/ aw' = sent
           \/ /\ aw.context # EmptyDict
              /\ aw' = [entered EXCEPT !.pc = "raised", !.error = "TypeError"]
    /\ UNCHANGED <<apw_personas, wf, awe_personas, workflow_history>>
    /\ UNCHANGED <<fullVars, simpleVars, ch, api, next_uuid, program>>
    /\ UNCHANGED <<chat_memory, chat_asked, cw>>

\* the awaited call of a parallel persona returns (lines 134-136)
parallel_return(content) ==
    /\ aw.pc = "calling_par"
    /\ LET p == aw.parallel_personas[aw.i]
           output == ParseOutput(content)
           last == aw.i = Len(aw.parallel_personas) IN
       aw' = [aw EXCEPT !.pc = IF last THEN "sequential" ELSE "parallel",
                        !.i = IF last THEN 1 ELSE @ + 1,
                        !.inflight = @ \ {aw.calls},
                        !.returned = Append(@, [persona |-> p, output |-> output]),
                        !.results = Put(@, p, output),
                        !.context = Put(@, p, output)]
    /\ UNCHANGED <<apw_personas, wf, awe_personas, workflow_history>>
    /\ UNCHANGED <<fullVars, simpleVars, ch, api, next_uuid, program>>
    /\ UNCHANGED <<chat_memory, chat_asked, cw>>

\* the awaited call of a sequential persona returns (lines 141-151)
sequential_return(content) ==
    /\ aw.pc = "calling_seq"
    /\ LET p == aw.sequential_personas[aw.i]
           output == ParseOutput(content)
           context == Put(aw.context, p, output) IN
       /\ aw' = [aw EXCEPT !.pc = "sequential",
                           !.i = @ + 1,
                           !.inflight = @ \ {aw.calls},
                           !.returned = Append(@, [persona |-> p, output |-> output]),
                           !.results = Put(@, p, output),
                           !.context = context]
       /\ workflow_history' = Append(workflow_history,
                                 [persona |-> p, input |-> aw.input,
                                  output |-> output, context |-> context])
    /\ UNCHANGED <<apw_personas, wf, awe_personas>>
    /\ UNCHANGED <<fullVars, simpleVars, ch, api, next_uuid, program>>
    /\ UNCHANGED <<chat_memory, chat_asked, cw>>

\* llm.agenerate raises: nothing catches it, the run raises
process_async_fail ==
    /\ aw.pc \in {"calling_par", "calling_seq"}
    /\ aw' = [aw EXCEPT !.pc = "raised", !.error = "UpstreamFailure",
                        !.inflight = {}]
    /\ UNCHANGED <<apw_personas, wf, awe_personas, workflow_history>>
    /\ UNCHANGED <<fullVars, simpleVars, ch, api, next_uuid, program>>
    /\ UNCHANGED <<chat_memory, chat_asked, cw>>

\* both loops are exhausted: return results (line 153)
AWE_return ==
    /\ aw.pc = "sequential"
    /\ aw.i > Len(aw.sequential_personas)
    /\ aw' = [aw EXCEPT !.pc = "returned"]
    /\ UNCHANGED <<apw_personas, wf, awe_personas, workflow_history>>
    /\ UNCHANGED <<fullVars, simpleVars, ch, api, next_uuid, program>>
    /\ UNCHANGED <<chat_memory, chat_asked, cw>>

\* most turns chat_memory holds
MaxTurns == 2

\* the questions asked about workflow results
Questions == {"q1"}

\* the workflow results a caller has in hand: what execute_workflow returned
ReturnedResults == IF aw.pc = "returned" THEN {aw.results} ELSE {}

\* readable_results of chat_with_output (lines 162-169): the four fields of
\* every PersonaOutput as plain values, which json.dumps serialises
ReadableResults(workflow_results) ==
    [n \in DOMAIN workflow_results |->
        [analysis |-> workflow_results[n].analysis,
         confidence |-> workflow_results[n].confidence,
         key_findings |-> workflow_results[n].key_findings,
         recommendations |-> workflow_results[n].recommendations]]

\* the messages chat_with_output sends (lines 171-189): the messages of the
\* engine's one chat_memory, then the system prompt holding the results and
\* the question, then the question
ChatMessages(memory, message, workflow_results) ==
    [history |-> memory,
     context |-> ReadableResults(workflow_results),
     message |-> message]

\* chat_with_output up to self.llm(messages) (lines 159-191)
AWE_chat_with_output(message, workflow_results) ==
    /\ program = "advanced_workflow"
    /\ ScriptIdle
    /\ Len(chat_asked) < MaxTurns
    /\ cw' = [BlankCw EXCEPT !.pc = "calling",
                             !.message = message,
                             !.workflow_results = workflow_results,
                             !.prompts = <<ChatMessages(chat_memory, message,
                                                        workflow_results)>>,
                             !.calls = 1]
    /\ UNCHANGED <<apw_personas, wf, awe_personas, workflow_history, aw>>
    /\ UNCHANGED <<chat_memory, chat_asked>>
    /\ UNCHANGED <<fullVars, simpleVars, ch, api, next_uuid, program>>

\* self.llm(messages) returns (lines 191-197): the question and the reply
\* go to chat_memory, the reply is returned
chat_with_output_return(content) ==
    /\ cw.pc = "calling"
    /\ chat_memory' = chat_memory \o <<[role |-> "human", text |-> cw.message],
                                       [role |-> "ai", text |-> content]>>
    /\ chat_asked' = Append(chat_asked, cw.workflow_results)
    /\ cw' = [cw EXCEPT !.pc = "returned"]
    /\ UNCHANGED <<apw_personas, wf, awe_personas, workflow_history, aw>>
    /\ UNCHANGED <<fullVars, simpleVars, ch, api, next_uuid, program>>

\* self.llm(messages) raises: nothing catches it, chat_memory is as before
chat_with_output_fail ==
    /\ cw.pc = "calling"
    /\ cw' = [cw EXCEPT !.pc = "raised", !.error = "UpstreamFailure"]
    /\ UNCHANGED <<apw_personas, wf, awe_personas, workflow_history, aw>>
    /\ UNCHANGED <<chat_memory, chat_asked>>
    /\ UNCHANGED <<fullVars, simpleVars, ch, api, next_uuid, program>>

----------------------------------------------------------------------------
(* PersonaManager and SimplePersonaManager: the persona registries *)

\* users submitting requests
Users == {"u1", "u2"}

\* most custom personas created in one process
MaxCustom == 1

\* most workflows created in one process
MaxWorkflows == 1

\* most persona steps of the runs of one process (a run begins only if its
\* steps fit)
\* the ids of the built-in personas: the uuid4 values drawn at construction
NumBuiltin == 6

NumSimpleBuiltin == 5

\* the first id a custom persona, a workflow, an analysis result gets
FirstCustomId == 7

FirstWorkflowId == 101

FirstAnalysisId == 201

\* PersonaManager._initialize_default_personas
BuiltinPersonas ==
    [id \in 1..NumBuiltin |->
        [id |-> id,
         name |-> CASE id = 1 -> "Contract Review Specialist"
                    [] id = 2 -> "Financial Analyst"
                    [] id = 3 -> "Risk Management Specialist"
                    [] id = 4 -> "Technical Reviewer"
                    [] id = 5 -> "Compliance Officer"
                    [] id = 6 -> "Market Intelligence Analyst",
         persona_type |-> IF id \in {4, 5} THEN "prompt" ELSE "agent",
         is_custom |-> FALSE,
         template_ok |-> TRUE]]

\* SimplePersonaManager._initialize_default_personas (no persona_type there:
\* every persona is a prompt)
SimpleBuiltinPersonas ==
    [id \in 1..NumSimpleBuiltin |->
        [id |-> id,
         name |-> CASE id = 1 -> "Contract Reviewer"
                    [] id = 2 -> "Financial Analyst"
                    [] id = 3 -> "Risk Manager"
                    [] id = 4 -> "Technical Reviewer"
                    [] id = 5 -> "Compliance Officer",
         persona_type |-> "prompt",
         is_custom |-> FALSE,
         template_ok |-> TRUE]]

\* persona ids a caller names in requests: a built-in, the first custom id,
\* and an id no persona ever has
RequestIds == {1, FirstCustomId, 0}

\* persona ids a caller puts into a workflow
WorkflowIds == {1, FirstCustomId}

\* JSON text of a form field that is to hold an array
JsonFields == {"array", "object", "malformed"}

\* delete_persona deleting whatever persona has the id
delete_persona_any(personas, persona_id) ==
    IF persona_id \in DOMAIN personas
    THEN [personas |-> Del(personas, persona_id), ret |-> TRUE]
    ELSE [personas |-> personas, ret |-> FALSE]

\* PersonaManager.delete_persona and SimplePersonaManager.delete_persona
delete_persona(personas, persona_id) ==
    IF persona_id \in DOMAIN personas /\ personas[persona_id].is_custom
    THEN [personas |-> Del(personas, persona_id), ret |-> TRUE]
    ELSE [personas |-> personas, ret |-> FALSE]

\* create_custom_persona leaving the persona marked as a built-in
create_custom_persona_unmarked(personas, id, template_ok) ==
    Put(personas, id, [id |-> id, name |-> "Custom Persona",
                       persona_type |-> "prompt", is_custom |-> FALSE,
                       template_ok |-> template_ok])

\* PersonaManager.create_custom_persona and
\* SimplePersonaManager.create_custom_persona; template_ok tells whether the
\* caller's template formats with the document as its only placeholder
create_custom_persona(personas, id, template_ok) ==
    Put(personas, id, [id |-> id, name |-> "Custom Persona",
                       persona_type |-> "prompt", is_custom |-> TRUE,
                       template_ok |-> template_ok])

BlankWe ==
    [pc |-> "idle", workflow_id |-> 0, user_id |-> "", document |-> "",
     personas |-> <<>>, i |-> 1, results |-> EmptyDict, errors |-> <<>>,
     completed |-> 0, prompts |-> <<>>, calls |-> 0, error |-> "none",
     registry |-> EmptyDict]

BlankSwe ==
    [pc |-> "idle", workflow_id |-> 0, user_id |-> "", document |-> "",
     persona_ids |-> <<>>, i |-> 1, results |-> EmptyDict, outs |-> <<>>,
     prompts |-> <<>>, calls |-> 0, error |-> "none",
     registry |-> EmptyDict]

\* no chat system call has been made: the locals of send_message,
\* get_analysis_summary and get_comparative_analysis, and the prompts sent
BlankCh ==
    [pc |-> "idle", op |-> "none", analysis_ids |-> <<>>, message |-> "",
     analyses |-> <<>>, prompts |-> <<>>, calls |-> 0, error |-> "none"]

NoResponse == [op |-> "none", arg |-> 0, status |-> 0, ret |-> FALSE, body |-> <<>>]

\* no request is being handled
\* every handler run in a pool of threads, whatever else is running
EventLoopFree_threads == TRUE

\* the handlers of api.py are coroutines (async def) that call the chat
\* system without awaiting: the event loop runs one handler at a time, from
\* its first line to its return
EventLoopFree == \A k \in DOMAIN handlers : handlers[k].pc # "calling"

ServerIdle == ~Busy(we) /\ ~Busy(swe) /\ ~Busy(ch) /\ EventLoopFree

\* api.py GET /personas/{persona_id}
API_get_persona(persona_id) ==
    /\ program = "api"
    /\ ServerIdle
    /\ api' = [op |-> "get_persona", arg |-> persona_id,
               status |-> IF persona_id \in DOMAIN pm_personas THEN 200 ELSE 404,
               ret |-> persona_id \in DOMAIN pm_personas, body |-> <<>>]
    /\ we' = BlankWe
    /\ UNCHANGED <<pm_personas, we_workflows, we_results, next_uuid, program>>
    /\ UNCHANGED <<scriptVars, simpleVars, handlers>>
    /\ UNCHANGED <<chat_history, conversation_memories>>
    /\ ch' = BlankCh

\* api.py POST /personas: a malformed field gives 400; a field that is JSON
\* but no array raises ValueError, which "except json.JSONDecodeError" does
\* not catch, so the request ends as a server error
API_create_persona(field, template_ok) ==
    /\ program = "api"
    /\ ServerIdle
    /\ next_uuid.persona < MaxCustom
    /\ we' = BlankWe
    /\ IF field = "array"
       THEN LET id == FirstCustomId + next_uuid.persona IN
            /\ pm_personas' = create_custom_persona(pm_personas, id, template_ok)
            /\ next_uuid' = [next_uuid EXCEPT !.persona = @ + 1]
            /\ api' = [op |-> "create_persona", arg |-> id, status |-> 200, ret |-> TRUE, body |-> <<>>]
       ELSE /\ api' = [op |-> "create_persona", arg |-> 0,
                       status |-> IF field = "malformed" THEN 400 ELSE 500,
                       ret |-> FALSE, body |-> <<>>]
            /\ UNCHANGED <<pm_personas, next_uuid>>
    /\ UNCHANGED <<we_workflows, we_results, program>>
    /\ UNCHANGED <<scriptVars, simpleVars, handlers>>
    /\ UNCHANGED <<chat_history, conversation_memories>>
    /\ ch' = BlankCh

\* api.py DELETE /personas/{persona_id}
API_delete_persona(persona_id) ==
    /\ program = "api"
    /\ ServerIdle
    /\ LET r == delete_persona(pm_personas, persona_id) IN
       /\ pm_personas' = r.personas
       /\ api' = [op |-> "delete_persona", arg |-> persona_id,
                  status |-> IF r.ret THEN 200 ELSE 404, ret |-> r.ret, body |-> <<>>]
    /\ we' = BlankWe
    /\ UNCHANGED <<we_workflows, we_results, next_uuid, program>>
    /\ UNCHANGED <<scriptVars, simpleVars, handlers>>
    /\ UNCHANGED <<chat_history, conversation_memories>>
    /\ ch' = BlankCh

\* simplified_api.py GET /personas/{persona_id}
SAPI_get_persona(persona_id) ==
    /\ program = "simplified_api"
    /\ ServerIdle
    /\ api' = [op |-> "get_persona", arg |-> persona_id,
               status |-> IF persona_id \in DOMAIN spm_personas THEN 200 ELSE 404,
               ret |-> persona_id \in DOMAIN spm_personas, body |-> <<>>]
    /\ swe' = BlankSwe
    /\ UNCHANGED <<spm_personas, swe_workflows, swe_results, next_uuid, program>>
    /\ UNCHANGED <<scriptVars, fullVars>>
    /\ UNCHANGED simple_chat_history
    /\ ch' = BlankCh

\* simplified_api.py POST /personas: a malformed field gives 400; a field
\* that is JSON but no array fails the Persona model's validation
\* (analysis_focus: List[str]) and ends as a server error
SAPI_create_persona(field, template_ok) ==
    /\ program = "simplified_api"
    /\ ServerIdle
    /\ next_uuid.persona < MaxCustom
    /\ swe' = BlankSwe
    /\ IF field = "array"
       THEN LET id == FirstCustomId + next_uuid.persona IN
            /\ spm_personas' = create_custom_persona(spm_personas, id, template_ok)
            /\ next_uuid' = [next_uuid EXCEPT !.persona = @ + 1]
            /\ api' = [op |-> "create_persona", arg |-> id, status |-> 200, ret |-> TRUE, body |-> <<>>]
       ELSE /\ api' = [op |-> "create_persona", arg |-> 0,
                       status |-> IF field = "malformed" THEN 400 ELSE 500,
                       ret |-> FALSE, body |-> <<>>]
            /\ UNCHANGED <<spm_personas, next_uuid>>
    /\ UNCHANGED <<swe_workflows, swe_results, program>>
    /\ UNCHANGED <<scriptVars, fullVars>>
    /\ UNCHANGED simple_chat_history
    /\ ch' = BlankCh

\* simplified_api.py DELETE /personas/{persona_id}
SAPI_delete_persona(persona_id) ==
    /\ program = "simplified_api"
    /\ ServerIdle
    /\ LET r == delete_persona(spm_personas, persona_id) IN
       /\ spm_personas' = r.personas
       /\ api' = [op |-> "delete_persona", arg |-> persona_id,
                  status |-> IF r.ret THEN 200 ELSE 404, ret |-> r.ret, body |-> <<>>]
    /\ swe' = BlankSwe
    /\ UNCHANGED <<swe_workflows, swe_results, next_uuid, program>>
    /\ UNCHANGED <<scriptVars, fullVars>>
    /\ UNCHANGED simple_chat_history
    /\ ch' = BlankCh

----------------------------------------------------------------------------
(* WorkflowEngine (api.py) *)

\* most work of the runs stored in one process; a run costs one plus the
\* number of personas of its workflow, and begins only if the cost fits
MaxWork == 4

\* an id no workflow ever has
UnknownWorkflowId == 100

\* json.loads(response.content) of the specialised agents, with their
\* fallback {"raw_analysis": content}
JsonLoads(content) ==
    IF content = "j1" THEN [kind |-> "json", text |-> content]
    ELSE [kind |-> "raw_analysis", text |-> content]

\* the personas of persona_ids that the registry resolves, in order
ResolvePersonas(personas, persona_ids) ==
    LET found == SelectSeq(persona_ids, LAMBDA id : id \in DOMAIN personas)
    IN  [k \in 1..Len(found) |-> personas[found[k]]]

\* WorkflowEngine.create_workflow: keeps the Persona objects the registry
\* has for the ids, and drops the ids it does not have
WE_create_workflow(id, persona_ids, created_by) ==
    [id |-> id, personas |-> ResolvePersonas(pm_personas, persona_ids),
     created_by |-> created_by]

\* the work of the stored runs of WorkflowEngine
WE_Work ==
    LET RECURSIVE sum(_)
        sum(S) == IF S = {} THEN 0
                  ELSE LET r == CHOOSE x \in S : TRUE
                       IN  1 + we_results[r].metadata.total_personas + sum(S \ {r})
    IN  sum(DOMAIN we_results)

\* api.py POST /workflows
API_create_workflow(field, persona_ids, created_by) ==
    /\ program = "api"
    /\ ServerIdle
    /\ next_uuid.workflow < MaxWorkflows
    /\ we' = BlankWe
    /\ IF field = "array"
       THEN LET id == FirstWorkflowId + next_uuid.workflow IN
            /\ we_workflows' = Put(we_workflows, id,
                                   WE_create_workflow(id, persona_ids, created_by))
            /\ next_uuid' = [next_uuid EXCEPT !.workflow = @ + 1]
            /\ api' = [op |-> "create_workflow", arg |-> id, status |-> 200, ret |-> TRUE, body |-> <<>>]
       ELSE /\ api' = [op |-> "create_workflow", arg |-> 0,
                       status |-> IF field = "malformed" THEN 400 ELSE 500,
                       ret |-> FALSE, body |-> <<>>]
            /\ UNCHANGED <<we_workflows, next_uuid>>
    /\ UNCHANGED <<pm_personas, we_results, program>>
    /\ UNCHANGED <<scriptVars, simpleVars, handlers>>
    /\ UNCHANGED <<chat_history, conversation_memories>>
    /\ ch' = BlankCh

\* the sequence has an element at two positions
HasRepeat(seq) ==
    \E a, b \in 1..Len(seq) : a # b /\ seq[a] = seq[b]

\* api.py POST /analysis/execute with WorkflowEngine.execute_workflow up to
\* compiled_graph.invoke (lines 308-337): an unknown workflow raises
\* ValueError; the graph has one node per persona id, so add_node rejects a
\* persona that occurs twice, and compile rejects a graph without entry
\* point, both with ValueError; the handler turns ValueError into 400
API_execute_workflow(workflow_id, document, user_id) ==
    /\ program = "api"
    /\ ServerIdle
    /\ workflow_id \in DOMAIN we_workflows =>
          WE_Work + 1 + Len(we_workflows[workflow_id].personas) <= MaxWork
    /\ LET entered == [BlankWe EXCEPT !.workflow_id = workflow_id,
                                      !.document = document,
                                      !.user_id = user_id,
                                      !.registry = pm_personas]
       IN  IF workflow_id \notin DOMAIN we_workflows
           THEN /\ we' = [entered EXCEPT !.pc = "raised", !.error = "NotFound"]
                /\ api' = [op |-> "execute_workflow", arg |-> workflow_id,
                           status |-> 400, ret |-> FALSE, body |-> <<>>]
           ELSE LET personas == we_workflows[workflow_id].personas IN
                IF personas = <<>> \/ HasRepeat(personas)
                THEN /\ we' = [entered EXCEPT !.pc = "raised", !.error = "GraphError",
                                              !.personas = personas]
                     /\ api' = [op |-> "execute_workflow", arg |-> workflow_id,
                                status |-> 400, ret |-> FALSE, body |-> <<>>]
                ELSE /\ we' = [entered EXCEPT !.pc = "node", !.personas = personas]
                     /\ api' = [op |-> "execute_workflow", arg |-> workflow_id,
                                status |-> 0, ret |-> FALSE, body |-> <<>>]
    /\ UNCHANGED <<pm_personas, we_workflows, we_results, next_uuid, program>>
    /\ UNCHANGED <<scriptVars, simpleVars, handlers>>
    /\ UNCHANGED <<chat_history, conversation_memories>>
    /\ ch' = BlankCh

\* _execute_prompt_analysis / the specialised agents: the prompt holds the
\* document content and nothing else of the run
WE_RenderPrompt(persona, document) ==
    [persona |-> persona.id,
     kind    |-> persona.persona_type,
     input   |-> document,
     context |-> <<>>]

\* persona_analysis up to llm.invoke (lines 68-77, 91-103): a template that
\* does not format raises inside the try, which records the error; otherwise
\* the prompt is sent
persona_analysis_begin ==
    /\ we.pc = "node"
    /\ we.i <= Len(we.personas)
    /\ LET persona == we.personas[we.i] IN
       we' = IF ~persona.template_ok
             THEN [we EXCEPT !.errors = Append(@, persona.name), !.i = @ + 1]
             ELSE [we EXCEPT !.pc = "calling",
                             !.prompts = Append(@, WE_RenderPrompt(persona, we.document)),
                             !.calls = @ + 1]
    /\ UNCHANGED <<pm_personas, we_workflows, we_results, api, next_uuid, program>>
    /\ UNCHANGED <<scriptVars, simpleVars, handlers>>
    /\ UNCHANGED <<chat_history, conversation_memories>>
    /\ UNCHANGED ch

\* llm.invoke returns: state.results[persona.id] = result (lines 79-80)
persona_analysis_return(content) ==
    /\ we.pc = "calling"
    /\ LET persona == we.personas[we.i]
           result == [persona_name |-> persona.name,
                      analysis |-> IF persona.persona_type = "agent"
                                   THEN JsonLoads(content)
                                   ELSE [kind |-> "text", text |-> content]]
       IN  we' = [we EXCEPT !.pc = "node",
                            !.results = Put(@, persona.id, result),
                            !.completed = @ + 1,
                            !.i = @ + 1]
    /\ UNCHANGED <<pm_personas, we_workflows, we_results, api, next_uuid, program>>
    /\ UNCHANGED <<scriptVars, simpleVars, handlers>>
    /\ UNCHANGED <<chat_history, conversation_memories>>
    /\ UNCHANGED ch

\* llm.invoke raises: the except of the node records the error (lines 82-83)
persona_analysis_fail ==
    /\ we.pc = "calling"
    /\ we' = [we EXCEPT !.pc = "node",
                        !.errors = Append(@, we.personas[we.i].name),
                        !.i = @ + 1]
    /\ UNCHANGED <<pm_personas, we_workflows, we_results, api, next_uuid, program>>
    /\ UNCHANGED <<scriptVars, simpleVars, handlers>>
    /\ UNCHANGED <<chat_history, conversation_memories>>
    /\ UNCHANGED ch

\* execute_workflow after the graph has run (lines 340-358).  The
\* comprehension of persona_results iterates final_state.results.items(),
\* whose keys are the persona id strings, and evaluates persona.id on each
\* key: with any entry in results this raises AttributeError, which the
\* handler turns into 500 and nothing is stored.  With no entry the
\* AnalysisResult is built, stored and returned.
WE_assemble ==
    /\ we.pc = "node"
    /\ we.i > Len(we.personas)
    /\ IF we.results # EmptyDict
       THEN /\ we' = [we EXCEPT !.pc = "raised", !.error = "AttributeError"]
            /\ api' = [op |-> "execute_workflow", arg |-> we.workflow_id,
                       status |-> 500, ret |-> FALSE, body |-> <<>>]
            /\ UNCHANGED <<we_results, next_uuid>>
       ELSE LET id == FirstAnalysisId + next_uuid.analysis IN
            /\ we_results' = Put(we_results, id,
                  [id |-> id, workflow_id |-> we.workflow_id,
                   document_name |-> we.document,
                   analysis_content |-> we.results,
                   persona_results |-> EmptyDict,
                   metadata |-> [total_personas |-> Len(we.personas),
                                 completed_personas |-> we.completed,
                                 errors |-> we.errors,
                                 user_id |-> we.user_id]])
            /\ next_uuid' = [next_uuid EXCEPT !.analysis = @ + 1]
            /\ we' = [we EXCEPT !.pc = "returned"]
            /\ api' = [op |-> "execute_workflow", arg |-> id, status |-> 200, ret |-> TRUE, body |-> <<>>]
    /\ UNCHANGED <<pm_personas, we_workflows, program>>
    /\ UNCHANGED <<scriptVars, simpleVars, handlers>>
    /\ UNCHANGED <<chat_history, conversation_memories>>
    /\ UNCHANGED ch

\* the ids of a store, in the order the entries were put in (a dict keeps
\* insertion order, and ids are given out in increasing order)
RECURSIVE StoredIds(_)
StoredIds(store) ==
    IF DOMAIN store = {} THEN <<>>
    ELSE LET last == CHOOSE id \in DOMAIN store : \A other \in DOMAIN store : other <= id
         IN  Append(StoredIds([id \in (DOMAIN store) \ {last} |-> store[id]]), last)

\* WorkflowEngine.get_user_analyses: the stored results whose metadata has
\* the user id
WE_get_user_analyses(user_id) ==
    SelectSeq(StoredIds(we_results),
              LAMBDA id : we_results[id].metadata.user_id = user_id)

\* api.py GET /analysis/user/{user_id}
API_get_user_analyses(user_id) ==
    /\ program = "api"
    /\ ServerIdle
    /\ api' = [op |-> "get_user_analyses", arg |-> 0, status |-> 200, ret |-> TRUE,
               body |-> WE_get_user_analyses(user_id)]
    /\ we' = BlankWe
    /\ UNCHANGED <<pm_personas, we_workflows, we_results, next_uuid, program>>
    /\ UNCHANGED <<scriptVars, simpleVars, handlers>>
    /\ UNCHANGED <<chat_history, conversation_memories>>
    /\ ch' = BlankCh

\* api.py GET /workflows/{workflow_id}
API_get_workflow(workflow_id) ==
    /\ program = "api"
    /\ ServerIdle
    /\ api' = [op |-> "get_workflow", arg |-> workflow_id,
               status |-> IF workflow_id \in DOMAIN we_workflows THEN 200 ELSE 404,
               ret |-> workflow_id \in DOMAIN we_workflows, body |-> <<>>]
    /\ we' = BlankWe
    /\ UNCHANGED <<pm_personas, we_workflows, we_results, next_uuid, program>>
    /\ UNCHANGED <<scriptVars, simpleVars, handlers>>
    /\ UNCHANGED <<chat_history, conversation_memories>>
    /\ ch' = BlankCh

\* api.py GET /analysis/{analysis_id}
API_get_analysis(analysis_id) ==
    /\ program = "api"
    /\ ServerIdle
    /\ api' = [op |-> "get_analysis", arg |-> analysis_id,
               status |-> IF analysis_id \in DOMAIN we_results THEN 200 ELSE 404,
               ret |-> analysis_id \in DOMAIN we_results, body |-> <<>>]
    /\ we' = BlankWe
    /\ UNCHANGED <<pm_personas, we_workflows, we_results, next_uuid, program>>
    /\ UNCHANGED <<scriptVars, simpleVars, handlers>>
    /\ UNCHANGED <<chat_history, conversation_memories>>
    /\ ch' = BlankCh

----------------------------------------------------------------------------
(* SimpleWorkflowEngine (simplified_api.py) *)

\* SimpleWorkflowEngine.create_workflow: stores the id list as given
SWE_create_workflow(id, persona_ids, created_by) ==
    [id |-> id, persona_ids |-> persona_ids, created_by |-> created_by]

\* the work of the stored runs of SimpleWorkflowEngine
SWE_Work ==
    LET RECURSIVE sum(_)
        sum(S) == IF S = {} THEN 0
                  ELSE LET r == CHOOSE x \in S : TRUE
                       IN  1 + Len(swe_workflows[swe_results[r].workflow_id].persona_ids)
                             + sum(S \ {r})
    IN  sum(DOMAIN swe_results)

\* simplified_api.py POST /workflows: only malformed JSON is refused by the
\* handler; JSON that is no array fails the Workflow model's validation
\* (persona_ids: List[str])
SAPI_create_workflow(field, persona_ids, created_by) ==
    /\ program = "simplified_api"
    /\ ServerIdle
    /\ next_uuid.workflow < MaxWorkflows
    /\ swe' = BlankSwe
    /\ IF field = "array"
       THEN LET id == FirstWorkflowId + next_uuid.workflow IN
            /\ swe_workflows' = Put(swe_workflows, id,
                                    SWE_create_workflow(id, persona_ids, created_by))
            /\ next_uuid' = [next_uuid EXCEPT !.workflow = @ + 1]
            /\ api' = [op |-> "create_workflow", arg |-> id, status |-> 200, ret |-> TRUE, body |-> <<>>]
       ELSE /\ api' = [op |-> "create_workflow", arg |-> 0,
                       status |-> IF field = "malformed" THEN 400 ELSE 500,
                       ret |-> FALSE, body |-> <<>>]
            /\ UNCHANGED <<swe_workflows, next_uuid>>
    /\ UNCHANGED <<spm_personas, swe_results, program>>
    /\ UNCHANGED <<scriptVars, fullVars>>
    /\ UNCHANGED simple_chat_history
    /\ ch' = BlankCh

\* simplified_api.py POST /analysis/execute with
\* SimpleWorkflowEngine.execute_workflow up to its loop (lines 52-56)
SAPI_execute_analysis(workflow_id, document, user_id) ==
    /\ program = "simplified_api"
    /\ ServerIdle
    /\ workflow_id \in DOMAIN swe_workflows =>
          SWE_Work + 1 + Len(swe_workflows[workflow_id].persona_ids) <= MaxWork
    /\ LET entered == [BlankSwe EXCEPT !.workflow_id = workflow_id,
                                       !.document = document,
                                       !.user_id = user_id,
                                       !.registry = spm_personas]
       IN  IF workflow_id \notin DOMAIN swe_workflows
           THEN /\ swe' = [entered EXCEPT !.pc = "raised", !.error = "NotFound"]
                /\ api' = [op |-> "execute_analysis", arg |-> workflow_id,
                           status |-> 404, ret |-> FALSE, body |-> <<>>]
           ELSE /\ swe' = [entered EXCEPT
                              !.pc = "loop",
                              !.persona_ids = swe_workflows[workflow_id].persona_ids]
                /\ api' = [op |-> "execute_analysis", arg |-> workflow_id,
                           status |-> 0, ret |-> FALSE, body |-> <<>>]
    /\ UNCHANGED <<spm_personas, swe_workflows, swe_results, next_uuid, program>>
    /\ UNCHANGED <<scriptVars, fullVars>>
    /\ UNCHANGED simple_chat_history
    /\ ch' = BlankCh

\* _analyze_with_persona: persona.prompt_template.format(content=...)
SWE_RenderPrompt(persona, document) ==
    [persona |-> persona.id, kind |-> "prompt", input |-> document, context |-> <<>>]

\* one iteration of the loop up to llm.invoke (lines 59-63): an id the
\* registry does not have is passed over; a template that does not format
\* raises inside the try and leaves an error text; otherwise the prompt is
\* sent
SWE_step ==
    /\ swe.pc = "loop"
    /\ swe.i <= Len(swe.persona_ids)
    /\ LET persona_id == swe.persona_ids[swe.i] IN
       swe' = IF persona_id \notin DOMAIN spm_personas
              THEN [swe EXCEPT !.i = @ + 1]
              ELSE IF ~spm_personas[persona_id].template_ok
              THEN [swe EXCEPT !.results = Put(@, persona_id,
                                               [kind |-> "error", text |-> "KeyError"]),
                               !.outs = Append(@, [persona_id |-> persona_id,
                                                   result |-> [kind |-> "error",
                                                               text |-> "KeyError"]]),
                               !.i = @ + 1]
              ELSE [swe EXCEPT !.pc = "calling",
                               !.prompts = Append(@, SWE_RenderPrompt(spm_personas[persona_id],
                                                                      swe.document)),
                               !.calls = @ + 1]
    /\ UNCHANGED <<spm_personas, swe_workflows, swe_results, api, next_uuid, program>>
    /\ UNCHANGED <<scriptVars, fullVars>>
    /\ UNCHANGED simple_chat_history
    /\ UNCHANGED ch

\* a loop that keeps the first result of a persona id
SWE_return_keepfirst(content) ==
    /\ swe.pc = "calling"
    /\ swe' = [swe EXCEPT !.pc = "loop",
                          !.results = IF swe.persona_ids[swe.i] \in DOMAIN @ THEN @
                                      ELSE Put(@, swe.persona_ids[swe.i],
                                               [kind |-> "text", text |-> content]),
                          !.outs = Append(@, [persona_id |-> swe.persona_ids[swe.i],
                                              result |-> [kind |-> "text",
                                                          text |-> content]]),
                          !.i = @ + 1]
    /\ UNCHANGED <<spm_personas, swe_workflows, swe_results, api, next_uuid, program>>
    /\ UNCHANGED <<scriptVars, fullVars>>
    /\ UNCHANGED simple_chat_history
    /\ UNCHANGED ch

\* llm.invoke returns (line 64)
SWE_return(content) ==
    /\ swe.pc = "calling"
    /\ swe' = [swe EXCEPT !.pc = "loop",
                          !.results = Put(@, swe.persona_ids[swe.i],
                                          [kind |-> "text", text |-> content]),
                          !.outs = Append(@, [persona_id |-> swe.persona_ids[swe.i],
                                              result |-> [kind |-> "text",
                                                          text |-> content]]),
                          !.i = @ + 1]
    /\ UNCHANGED <<spm_personas, swe_workflows, swe_results, api, next_uuid, program>>
    /\ UNCHANGED <<scriptVars, fullVars>>
    /\ UNCHANGED simple_chat_history
    /\ UNCHANGED ch

\* a failed call ending the run instead of being caught
SWE_fail_abort ==
    /\ swe.pc = "calling"
    /\ swe' = [swe EXCEPT !.pc = "raised", !.error = "UpstreamFailure"]
    /\ api' = [op |-> "execute_analysis", arg |-> swe.workflow_id,
               status |-> 500, ret |-> FALSE, body |-> <<>>]
    /\ UNCHANGED <<spm_personas, swe_workflows, swe_results, next_uuid, program>>
    /\ UNCHANGED <<scriptVars, fullVars>>
    /\ UNCHANGED simple_chat_history
    /\ UNCHANGED ch

\* llm.invoke raises (lines 65-66)
SWE_fail ==
    /\ swe.pc = "calling"
    /\ swe' = [swe EXCEPT !.pc = "loop",
                          !.results = Put(@, swe.persona_ids[swe.i],
                                          [kind |-> "error", text |-> "UpstreamFailure"]),
                          !.outs = Append(@, [persona_id |-> swe.persona_ids[swe.i],
                                              result |-> [kind |-> "error",
                                                          text |-> "UpstreamFailure"]]),
                          !.i = @ + 1]
    /\ UNCHANGED <<spm_personas, swe_workflows, swe_results, api, next_uuid, program>>
    /\ UNCHANGED <<scriptVars, fullVars>>
    /\ UNCHANGED simple_chat_history
    /\ UNCHANGED ch

\* the loop is exhausted: build, store and return the AnalysisResult
\* (lines 68-78)
SWE_finish ==
    /\ swe.pc = "loop"
    /\ swe.i > Len(swe.persona_ids)
    /\ LET id == FirstAnalysisId + next_uuid.analysis IN
       /\ swe_results' = Put(swe_results, id,
             [id |-> id, workflow_id |-> swe.workflow_id,
              document_name |-> swe.document, results |-> swe.results])
       /\ next_uuid' = [next_uuid EXCEPT !.analysis = @ + 1]
       /\ swe' = [swe EXCEPT !.pc = "returned"]
       /\ api' = [op |-> "execute_analysis", arg |-> id, status |-> 200, ret |-> TRUE, body |-> <<>>]
    /\ UNCHANGED <<spm_personas, swe_workflows, program>>
    /\ UNCHANGED <<scriptVars, fullVars>>
    /\ UNCHANGED simple_chat_history
    /\ UNCHANGED ch

\* SimpleWorkflowEngine.get_user_analyses: "no user tracking in this
\* version", every stored result whatever the user id
SWE_get_user_analyses(user_id) ==
    StoredIds(swe_results)

\* simplified_api.py GET /analysis/user/{user_id}
SAPI_get_user_analyses(user_id) ==
    /\ program = "simplified_api"
    /\ ServerIdle
    /\ api' = [op |-> "get_user_analyses", arg |-> 0, status |-> 200, ret |-> TRUE,
               body |-> SWE_get_user_analyses(user_id)]
    /\ swe' = BlankSwe
    /\ UNCHANGED <<spm_personas, swe_workflows, swe_results, next_uuid, program>>
    /\ UNCHANGED <<scriptVars, fullVars>>
    /\ UNCHANGED simple_chat_history
    /\ ch' = BlankCh

----------------------------------------------------------------------------
(* ChatSystem (chat_system.py, behind api.py) *)

\* most ChatMessage objects one process creates
MaxMessages == 2

\* most run ids of one comparison request
MaxCompare == 2

\* the id the first ChatMessage gets
FirstMessageId == 301

\* an id no analysis result ever has
UnknownAnalysisId == 200

\* the messages users send
Messages == {"q1"}

\* reply texts to a request for JSON: text that is no JSON, a JSON object of
\* the summary shape, a JSON object of the comparison shape, a JSON number
StructuredReplies == {"t1", "s1", "c1", "42"}

\* what json.loads makes of a reply text: the shape of the parsed value, or
\* "invalid" where it raises
ShapeOf(content) ==
    CASE content = "s1" -> "summary"
      [] content = "c1" -> "comparison"
      [] content = "42" -> "number"
      [] OTHER -> "invalid"

\* try: json.loads(response.content) / except: the fixed object of the
\* given shape (lines 155-165 and 218-228)
LoadsOrFallback(content, shape) ==
    IF ShapeOf(content) # "invalid"
    THEN [from |-> "reply", shape |-> ShapeOf(content), text |-> content]
    ELSE [from |-> "fallback", shape |-> shape, text |-> "fixed"]

\* ChatSystem.get_chat_history
get_chat_history(analysis_id) ==
    IF analysis_id \in DOMAIN chat_history THEN chat_history[analysis_id] ELSE <<>>

\* one conversation memory serving every analysis
MemoryBuffer_shared(memories, analysis_id) ==
    IF DOMAIN memories = {} THEN <<>>
    ELSE memories[CHOOSE id \in DOMAIN memories : \A other \in DOMAIN memories : id <= other]

\* the buffer of the conversation memory of an analysis, created empty on
\* first use (_get_conversation_memory)
MemoryBuffer(memories, analysis_id) ==
    IF analysis_id \in DOMAIN memories THEN memories[analysis_id] ELSE <<>>

\* api.py POST /chat/send with ChatSystem.send_message up to llm.invoke
\* (lines 58-93): an unknown analysis raises ValueError, which the handler
\* turns into 400; otherwise the memory of the analysis is fetched, which
\* creates it, and the prompt is sent
API_send_chat_message(analysis_id, message, user_id) ==
    /\ program = "api"
    /\ ServerIdle
    /\ next_uuid.message < MaxMessages
    /\ we' = BlankWe
    /\ LET entered == [BlankCh EXCEPT !.op = "send_message",
                                      !.analysis_ids = <<analysis_id>>,
                                      !.message = message]
       IN  IF analysis_id \notin DOMAIN we_results
           THEN /\ ch' = [entered EXCEPT !.pc = "raised", !.error = "NotFound"]
                /\ api' = [op |-> "send_chat_message", arg |-> analysis_id,
                           status |-> 400, ret |-> FALSE, body |-> <<>>]
                /\ UNCHANGED conversation_memories
           ELSE /\ conversation_memories' =
                      Put(conversation_memories, analysis_id,
                          MemoryBuffer(conversation_memories, analysis_id))
                /\ ch' = [entered EXCEPT
                            !.pc = "calling",
                            !.analyses = <<analysis_id>>,
                            !.prompts = <<[context |-> <<analysis_id>>,
                                           memory |-> MemoryBuffer(conversation_memories,
                                                                   analysis_id),
                                           message |-> message]>>,
                            !.calls = 1]
                /\ api' = [op |-> "send_chat_message", arg |-> analysis_id,
                           status |-> 0, ret |-> FALSE, body |-> <<>>]
    /\ UNCHANGED <<pm_personas, we_workflows, we_results, chat_history, next_uuid, program>>
    /\ UNCHANGED <<scriptVars, simpleVars, handlers>>

\* a send_message whose turn is put in front of the history
send_message_return_front(content) ==
    /\ program = "api"
    /\ ch.pc = "calling"
    /\ ch.op = "send_message"
    /\ LET analysis_id == ch.analysis_ids[1]
           chat_message == [id |-> FirstMessageId + next_uuid.message,
                            analysis_id |-> analysis_id,
                            user_message |-> ch.message,
                            assistant_response |-> content]
       IN  /\ conversation_memories' =
                 Put(conversation_memories, analysis_id,
                     conversation_memories[analysis_id]
                        \o <<[role |-> "human", text |-> ch.message],
                             [role |-> "ai", text |-> content]>>)
           /\ chat_history' = Put(chat_history, analysis_id,
                                  <<chat_message>> \o get_chat_history(analysis_id))
           /\ api' = [op |-> "send_chat_message", arg |-> chat_message.id,
                      status |-> 200, ret |-> TRUE, body |-> <<chat_message>>]
    /\ next_uuid' = [next_uuid EXCEPT !.message = @ + 1]
    /\ ch' = [ch EXCEPT !.pc = "returned"]
    /\ UNCHANGED <<pm_personas, we_workflows, we_results, we, program>>
    /\ UNCHANGED <<scriptVars, simpleVars, handlers>>

\* llm.invoke of send_message returns (lines 95-114): the ChatMessage is
\* built, both messages go to the memory, the ChatMessage goes to the end of
\* the history of the analysis
send_message_return(content) ==
    /\ program = "api"
    /\ ch.pc = "calling"
    /\ ch.op = "send_message"
    /\ LET analysis_id == ch.analysis_ids[1]
           chat_message == [id |-> FirstMessageId + next_uuid.message,
                            analysis_id |-> analysis_id,
                            user_message |-> ch.message,
                            assistant_response |-> content]
       IN  /\ conversation_memories' =
                 Put(conversation_memories, analysis_id,
                     conversation_memories[analysis_id]
                        \o <<[role |-> "human", text |-> ch.message],
                             [role |-> "ai", text |-> content]>>)
           /\ chat_history' = Put(chat_history, analysis_id,
                                  Append(get_chat_history(analysis_id), chat_message))
           /\ api' = [op |-> "send_chat_message", arg |-> chat_message.id,
                      status |-> 200, ret |-> TRUE, body |-> <<chat_message>>]
    /\ next_uuid' = [next_uuid EXCEPT !.message = @ + 1]
    /\ ch' = [ch EXCEPT !.pc = "returned"]
    /\ UNCHANGED <<pm_personas, we_workflows, we_results, we, program>>
    /\ UNCHANGED <<scriptVars, simpleVars, handlers>>

\* a send_message that has put the user message into the memory before
\* the call, and leaves it there when the call fails
llm_invoke_fail_stored ==
    /\ program = "api"
    /\ ch.pc = "calling"
    /\ ch' = [ch EXCEPT !.pc = "raised", !.error = "UpstreamFailure"]
    /\ api' = [api EXCEPT !.status = 500]
    /\ conversation_memories' =
          IF ch.op = "send_message"
          THEN Put(conversation_memories, ch.analysis_ids[1],
                   conversation_memories[ch.analysis_ids[1]]
                      \o <<[role |-> "human", text |-> ch.message]>>)
          ELSE conversation_memories
    /\ UNCHANGED <<pm_personas, we_workflows, we_results, we, next_uuid, program>>
    /\ UNCHANGED chat_history
    /\ UNCHANGED <<scriptVars, simpleVars, handlers>>

\* llm.invoke raises in send_message, get_analysis_summary or
\* get_comparative_analysis: nothing in ChatSystem catches it; the handler of
\* /chat/send turns it into 500, the other two handlers catch ValueError
\* only, so the request ends as a server error as well
llm_invoke_fail ==
    /\ program = "api"
    /\ ch.pc = "calling"
    /\ ch' = [ch EXCEPT !.pc = "raised", !.error = "UpstreamFailure"]
    /\ api' = [api EXCEPT !.status = 500]
    /\ UNCHANGED <<pm_personas, we_workflows, we_results, we, next_uuid, program>>
    /\ UNCHANGED <<chat_history, conversation_memories>>
    /\ UNCHANGED <<scriptVars, simpleVars, handlers>>

\* api.py GET /chat/{analysis_id}/history
API_get_chat_history(analysis_id) ==
    /\ program = "api"
    /\ ServerIdle
    /\ api' = [op |-> "get_chat_history", arg |-> analysis_id, status |-> 200,
               ret |-> TRUE, body |-> get_chat_history(analysis_id)]
    /\ we' = BlankWe
    /\ ch' = BlankCh
    /\ UNCHANGED <<pm_personas, we_workflows, we_results, next_uuid, program>>
    /\ UNCHANGED <<chat_history, conversation_memories>>
    /\ UNCHANGED <<scriptVars, simpleVars, handlers>>

\* a clear_chat_history that returns False when the analysis has no
\* history, as that of SimpleChatSystem does
API_clear_chat_history_strict(analysis_id) ==
    /\ program = "api"
    /\ ServerIdle
    /\ chat_history' = Del(chat_history, analysis_id)
    /\ conversation_memories' = Del(conversation_memories, analysis_id)
    /\ api' = [op |-> "clear_chat_history", arg |-> analysis_id,
               status |-> IF analysis_id \in DOMAIN chat_history THEN 200 ELSE 404,
               ret |-> analysis_id \in DOMAIN chat_history, body |-> <<>>]
    /\ we' = BlankWe
    /\ ch' = BlankCh
    /\ UNCHANGED <<pm_personas, we_workflows, we_results, next_uuid, program>>
    /\ UNCHANGED <<scriptVars, simpleVars, handlers>>

\* api.py DELETE /chat/{analysis_id}/history with
\* ChatSystem.clear_chat_history, which returns True whatever the id
API_clear_chat_history(analysis_id) ==
    /\ program = "api"
    /\ ServerIdle
    /\ chat_history' = Del(chat_history, analysis_id)
    /\ conversation_memories' = Del(conversation_memories, analysis_id)
    /\ api' = [op |-> "clear_chat_history", arg |-> analysis_id, status |-> 200,
               ret |-> TRUE, body |-> <<>>]
    /\ we' = BlankWe
    /\ ch' = BlankCh
    /\ UNCHANGED <<pm_personas, we_workflows, we_results, next_uuid, program>>
    /\ UNCHANGED <<scriptVars, simpleVars, handlers>>

\* a get_analysis_summary that fetches the conversation memory of the
\* analysis, as send_message does
API_get_analysis_summary_memory(analysis_id) ==
    /\ program = "api"
    /\ ServerIdle
    /\ we' = BlankWe
    /\ LET entered == [BlankCh EXCEPT !.op = "get_analysis_summary",
                                      !.analysis_ids = <<analysis_id>>]
       IN  IF analysis_id \notin DOMAIN we_results
           THEN /\ ch' = [entered EXCEPT !.pc = "raised", !.error = "NotFound"]
                /\ api' = [op |-> "get_analysis_summary", arg |-> analysis_id,
                           status |-> 404, ret |-> FALSE, body |-> <<>>]
                /\ UNCHANGED conversation_memories
           ELSE /\ ch' = [entered EXCEPT
                            !.pc = "calling",
                            !.analyses = <<analysis_id>>,
                            !.prompts = <<[context |-> <<analysis_id>>,
                                           memory |-> <<>>,
                                           message |-> "summary"]>>,
                            !.calls = 1]
                /\ api' = [op |-> "get_analysis_summary", arg |-> analysis_id,
                           status |-> 0, ret |-> FALSE, body |-> <<>>]
                /\ conversation_memories' =
                      Put(conversation_memories, analysis_id,
                          MemoryBuffer(conversation_memories, analysis_id))
    /\ UNCHANGED <<pm_personas, we_workflows, we_results, next_uuid, program>>
    /\ UNCHANGED chat_history
    /\ UNCHANGED <<scriptVars, simpleVars, handlers>>

\* api.py GET /chat/{analysis_id}/summary with
\* ChatSystem.get_analysis_summary up to llm.invoke (lines 130-153): an
\* unknown analysis raises ValueError, which the handler turns into 404
API_get_analysis_summary(analysis_id) ==
    /\ program = "api"
    /\ ServerIdle
    /\ we' = BlankWe
    /\ LET entered == [BlankCh EXCEPT !.op = "get_analysis_summary",
                                      !.analysis_ids = <<analysis_id>>]
       IN  IF analysis_id \notin DOMAIN we_results
           THEN /\ ch' = [entered EXCEPT !.pc = "raised", !.error = "NotFound"]
                /\ api' = [op |-> "get_analysis_summary", arg |-> analysis_id,
                           status |-> 404, ret |-> FALSE, body |-> <<>>]
           ELSE /\ ch' = [entered EXCEPT
                            !.pc = "calling",
                            !.analyses = <<analysis_id>>,
                            !.prompts = <<[context |-> <<analysis_id>>,
                                           memory |-> <<>>,
                                           message |-> "summary"]>>,
                            !.calls = 1]
                /\ api' = [op |-> "get_analysis_summary", arg |-> analysis_id,
                           status |-> 0, ret |-> FALSE, body |-> <<>>]
    /\ UNCHANGED <<pm_personas, we_workflows, we_results, next_uuid, program>>
    /\ UNCHANGED <<chat_history, conversation_memories>>
    /\ UNCHANGED <<scriptVars, simpleVars, handlers>>

\* llm.invoke of get_analysis_summary returns (lines 153-173): the reply is
\* parsed, the fixed summary replaces a reply json.loads rejects
get_analysis_summary_return(content) ==
    /\ program = "api"
    /\ ch.pc = "calling"
    /\ ch.op = "get_analysis_summary"
    /\ ch' = [ch EXCEPT !.pc = "returned"]
    /\ api' = [op |-> "get_analysis_summary", arg |-> ch.analysis_ids[1],
               status |-> 200, ret |-> TRUE,
               body |-> <<LoadsOrFallback(content, "summary")>>]
    /\ UNCHANGED <<pm_personas, we_workflows, we_results, we, next_uuid, program>>
    /\ UNCHANGED <<chat_history, conversation_memories>>
    /\ UNCHANGED <<scriptVars, simpleVars, handlers>>

\* get_comparative_analysis refusing only on the number of ids given
CompareRejection_idsonly(analysis_ids, results) ==
    IF Len(analysis_ids) < 2 THEN "TooFewIds" ELSE "none"

\* ChatSystem.get_comparative_analysis, its two refusals (lines 179-189):
\* fewer than 2 ids, or fewer than 2 of them found in the run store
CompareRejection(analysis_ids, results) ==
    IF Len(analysis_ids) < 2 THEN "TooFewIds"
    ELSE IF Len(SelectSeq(analysis_ids, LAMBDA id : id \in DOMAIN results)) < 2
         THEN "TooFewAnalyses"
         ELSE "none"

\* api.py POST /chat/compare with ChatSystem.get_comparative_analysis up to
\* llm.invoke.  Malformed JSON gives 400; JSON that is no array, or an array
\* of fewer than 2, raises ValueError inside the first try, whose except is
\* for JSONDecodeError only, so the request ends as a server error; a
\* refusal of get_comparative_analysis is turned into 400
API_compare_analyses(field, analysis_ids) ==
    /\ program = "api"
    /\ ServerIdle
    /\ we' = BlankWe
    /\ LET entered == [BlankCh EXCEPT !.op = "get_comparative_analysis",
                                      !.analysis_ids = IF field = "array"
                                                       THEN analysis_ids ELSE <<>>]
           refusal == CompareRejection(analysis_ids, we_results)
       IN  IF field # "array" \/ Len(analysis_ids) < 2
           THEN /\ ch' = [entered EXCEPT !.pc = "raised", !.error = "BadRequest"]
                /\ api' = [op |-> "compare_analyses", arg |-> 0,
                           status |-> IF field = "malformed" THEN 400 ELSE 500,
                           ret |-> FALSE, body |-> <<>>]
           ELSE IF refusal # "none"
           THEN /\ ch' = [entered EXCEPT !.pc = "raised", !.error = refusal,
                             !.analyses = SelectSeq(analysis_ids,
                                              LAMBDA id : id \in DOMAIN we_results)]
                /\ api' = [op |-> "compare_analyses", arg |-> 0,
                           status |-> 400, ret |-> FALSE, body |-> <<>>]
           ELSE /\ ch' = [entered EXCEPT
                            !.pc = "calling",
                            !.analyses = SelectSeq(analysis_ids,
                                             LAMBDA id : id \in DOMAIN we_results),
                            !.prompts = <<[context |-> SelectSeq(analysis_ids,
                                                LAMBDA id : id \in DOMAIN we_results),
                                           memory |-> <<>>,
                                           message |-> "comparison"]>>,
                            !.calls = 1]
                /\ api' = [op |-> "compare_analyses", arg |-> 0,
                           status |-> 0, ret |-> FALSE, body |-> <<>>]
    /\ UNCHANGED <<pm_personas, we_workflows, we_results, next_uuid, program>>
    /\ UNCHANGED <<chat_history, conversation_memories>>
    /\ UNCHANGED <<scriptVars, simpleVars, handlers>>

\* llm.invoke of get_comparative_analysis returns (lines 216-236)
get_comparative_analysis_return(content) ==
    /\ program = "api"
    /\ ch.pc = "calling"
    /\ ch.op = "get_comparative_analysis"
    /\ ch' = [ch EXCEPT !.pc = "returned"]
    /\ api' = [op |-> "compare_analyses", arg |-> 0,
               status |-> 200, ret |-> TRUE,
               body |-> <<LoadsOrFallback(content, "comparison")>>]
    /\ UNCHANGED <<pm_personas, we_workflows, we_results, we, next_uuid, program>>
    /\ UNCHANGED <<chat_history, conversation_memories>>
    /\ UNCHANGED <<scriptVars, simpleVars, handlers>>

\* most /chat/send requests one process receives while earlier ones wait
MaxConcurrent == 2

\* a /chat/send request reaches the server: its handler waits for the event
\* loop
HTTP_receive_send(analysis_id, message, user_id) ==
    /\ program = "api"
    /\ Len(handlers) < MaxConcurrent
    /\ handlers' = Append(handlers,
                      [analysis_id |-> analysis_id, message |-> message,
                       pc |-> "pending", prompts |-> <<>>, calls |-> 0,
                       error |-> "none", status |-> 0, stored |-> 0])
    /\ UNCHANGED <<pm_personas, we_workflows, we_results, we, api, next_uuid, program>>
    /\ UNCHANGED <<chat_history, conversation_memories, ch>>
    /\ UNCHANGED <<scriptVars, simpleVars>>

\* the event loop runs the handler of a waiting request: send_chat_message
\* with ChatSystem.send_message up to llm.invoke (chat_system.py lines 58-96)
handler_begin(k) ==
    /\ program = "api"
    /\ handlers[k].pc = "pending"
    /\ ServerIdle
    /\ next_uuid.message < MaxMessages
    /\ LET analysis_id == handlers[k].analysis_id IN
       IF analysis_id \notin DOMAIN we_results
       THEN /\ handlers' = [handlers EXCEPT ![k].pc = "raised",
                                            ![k].error = "NotFound",
                                            ![k].status = 400]
            /\ UNCHANGED conversation_memories
       ELSE /\ conversation_memories' =
                  Put(conversation_memories, analysis_id,
                      MemoryBuffer(conversation_memories, analysis_id))
            /\ handlers' = [handlers EXCEPT
                  ![k].pc = "calling",
                  ![k].prompts = <<[context |-> <<analysis_id>>,
                                    memory |-> MemoryBuffer(conversation_memories,
                                                            analysis_id),
                                    message |-> handlers[k].message]>>,
                  ![k].calls = 1]
    /\ UNCHANGED <<pm_personas, we_workflows, we_results, we, api, next_uuid, program>>
    /\ UNCHANGED <<chat_history, ch>>
    /\ UNCHANGED <<scriptVars, simpleVars>>

\* llm.invoke returns in the handler (chat_system.py lines 96-116)
handler_return(k, content) ==
    /\ program = "api"
    /\ handlers[k].pc = "calling"
    /\ LET analysis_id == handlers[k].analysis_id
           chat_message == [id |-> FirstMessageId + next_uuid.message,
                            analysis_id |-> analysis_id,
                            user_message |-> handlers[k].message,
                            assistant_response |-> content]
       IN  /\ conversation_memories' =
                 Put(conversation_memories, analysis_id,
                     MemoryBuffer(conversation_memories, analysis_id)
                        \o <<[role |-> "human", text |-> handlers[k].message],
                             [role |-> "ai", text |-> content]>>)
           /\ chat_history' = Put(chat_history, analysis_id,
                                  Append(get_chat_history(analysis_id), chat_message))
           /\ handlers' = [handlers EXCEPT ![k].pc = "returned",
                                           ![k].status = 200,
                                           ![k].stored = chat_message.id]
    /\ next_uuid' = [next_uuid EXCEPT !.message = @ + 1]
    /\ UNCHANGED <<pm_personas, we_workflows, we_results, we, api, ch, program>>
    /\ UNCHANGED <<scriptVars, simpleVars>>

\* llm.invoke raises in the handler: 500, nothing stored
handler_fail(k) ==
    /\ program = "api"
    /\ handlers[k].pc = "calling"
    /\ handlers' = [handlers EXCEPT ![k].pc = "raised",
                                    ![k].error = "UpstreamFailure",
                                    ![k].status = 500]
    /\ UNCHANGED <<pm_personas, we_workflows, we_results, we, api, next_uuid, program>>
    /\ UNCHANGED <<chat_history, conversation_memories, ch>>
    /\ UNCHANGED <<scriptVars, simpleVars>>

----------------------------------------------------------------------------
(* SimpleChatSystem (simplified_chat.py, behind simplified_api.py) *)

\* SimpleChatSystem.get_chat_history
simple_get_chat_history(analysis_id) ==
    IF analysis_id \in DOMAIN simple_chat_history
    THEN simple_chat_history[analysis_id] ELSE <<>>

\* simplified_api.py POST /chat/send with SimpleChatSystem.send_message up
\* to llm.invoke (lines 34-57): an unknown analysis raises ValueError, which
\* the handler turns into 404
SAPI_send_chat_message(analysis_id, message, user_id) ==
    /\ program = "simplified_api"
    /\ ServerIdle
    /\ next_uuid.message < MaxMessages
    /\ swe' = BlankSwe
    /\ LET entered == [BlankCh EXCEPT !.op = "send_message",
                                      !.analysis_ids = <<analysis_id>>,
                                      !.message = message]
       IN  IF analysis_id \notin DOMAIN swe_results
           THEN /\ ch' = [entered EXCEPT !.pc = "raised", !.error = "NotFound"]
                /\ api' = [op |-> "send_chat_message", arg |-> analysis_id,
                           status |-> 404, ret |-> FALSE, body |-> <<>>]
           ELSE /\ ch' = [entered EXCEPT
                            !.pc = "calling",
                            !.analyses = <<analysis_id>>,
                            !.prompts = <<[context |-> <<analysis_id>>,
                                           memory |-> <<>>,
                                           message |-> message]>>,
                            !.calls = 1]
                /\ api' = [op |-> "send_chat_message", arg |-> analysis_id,
                           status |-> 0, ret |-> FALSE, body |-> <<>>]
    /\ UNCHANGED <<spm_personas, swe_workflows, swe_results, next_uuid, program>>
    /\ UNCHANGED simple_chat_history
    /\ UNCHANGED <<scriptVars, fullVars>>

\* llm.invoke of SimpleChatSystem.send_message returns (lines 59-73)
simple_send_message_return(content) ==
    /\ program = "simplified_api"
    /\ ch.pc = "calling"
    /\ ch.op = "send_message"
    /\ LET analysis_id == ch.analysis_ids[1]
           chat_message == [analysis_id |-> analysis_id,
                            message |-> ch.message,
                            response |-> content]
       IN  /\ simple_chat_history' =
                 Put(simple_chat_history, analysis_id,
                     Append(simple_get_chat_history(analysis_id), chat_message))
           /\ api' = [op |-> "send_chat_message", arg |-> analysis_id,
                      status |-> 200, ret |-> TRUE, body |-> <<chat_message>>]
    /\ next_uuid' = [next_uuid EXCEPT !.message = @ + 1]
    /\ ch' = [ch EXCEPT !.pc = "returned"]
    /\ UNCHANGED <<spm_personas, swe_workflows, swe_results, swe, program>>
    /\ UNCHANGED <<scriptVars, fullVars>>

\* llm.invoke raises in SimpleChatSystem.send_message: the handler catches
\* ValueError only, the request ends as a server error
simple_llm_invoke_fail ==
    /\ program = "simplified_api"
    /\ ch.pc = "calling"
    /\ ch' = [ch EXCEPT !.pc = "raised", !.error = "UpstreamFailure"]
    /\ api' = [api EXCEPT !.status = 500]
    /\ UNCHANGED <<spm_personas, swe_workflows, swe_results, swe, next_uuid, program>>
    /\ UNCHANGED simple_chat_history
    /\ UNCHANGED <<scriptVars, fullVars>>

\* simplified_api.py GET /chat/{analysis_id}/history
SAPI_get_chat_history(analysis_id) ==
    /\ program = "simplified_api"
    /\ ServerIdle
    /\ api' = [op |-> "get_chat_history", arg |-> analysis_id, status |-> 200,
               ret |-> TRUE, body |-> simple_get_chat_history(analysis_id)]
    /\ swe' = BlankSwe
    /\ ch' = BlankCh
    /\ UNCHANGED <<spm_personas, swe_workflows, swe_results, next_uuid, program>>
    /\ UNCHANGED simple_chat_history
    /\ UNCHANGED <<scriptVars, fullVars>>

\* simplified_api.py DELETE /chat/{analysis_id}/history with
\* SimpleChatSystem.clear_chat_history: True if the analysis had a history,
\* else False, which the handler turns into 404
SAPI_clear_chat_history(analysis_id) ==
    /\ program = "simplified_api"
    /\ ServerIdle
    /\ simple_chat_history' = Del(simple_chat_history, analysis_id)
    /\ api' = [op |-> "clear_chat_history", arg |-> analysis_id,
               status |-> IF analysis_id \in DOMAIN simple_chat_history THEN 200 ELSE 404,
               ret |-> analysis_id \in DOMAIN simple_chat_history, body |-> <<>>]
    /\ swe' = BlankSwe
    /\ ch' = BlankCh
    /\ UNCHANGED <<spm_personas, swe_workflows, swe_results, next_uuid, program>>
    /\ UNCHANGED <<scriptVars, fullVars>>

----------------------------------------------------------------------------
(* Specification of the script-level engines *)

\* the module-level instances of the two servers
InitServers ==
    /\ pm_personas = BuiltinPersonas
    /\ we_workflows = EmptyDict
    /\ we_results = EmptyDict
    /\ we = BlankWe
    /\ spm_personas = SimpleBuiltinPersonas
    /\ swe_workflows = EmptyDict
    /\ swe_results = EmptyDict
    /\ swe = BlankSwe
    /\ api = NoResponse
    /\ chat_history = EmptyDict
    /\ conversation_memories = EmptyDict
    /\ simple_chat_history = EmptyDict
    /\ ch = BlankCh
    /\ handlers = <<>>
    /\ next_uuid = [persona |-> 0, workflow |-> 0, analysis |-> 0, message |-> 0]

\* every variable as its object leaves its constructor
InitScripts ==
    /\ apw_personas = DefaultPersonas
    /\ wf = BlankWf
    /\ awe_personas = EmptyDict
    /\ workflow_history = <<>>
    /\ aw = BlankAw
    /\ chat_memory = <<>>
    /\ chat_asked = <<>>
    /\ cw = BlankCw
    /\ InitServers

NextPipelines ==
    \/ \E c \in AddablePersonas : add_persona(c)
    \/ \E input \in Inputs, seq \in SeqsUpTo(SeqNames, MaxSeq) :
          PW_execute_workflow(input, seq)
    \/ \E input \in Inputs, seq \in SeqsUpTo(SeqNames, MaxSeq) :
          APW_execute_workflow(input, seq)
    \/ Pipe_Step
    \/ \E response \in Replies : Pipe_Return(response)
    \/ Pipe_Fail
    \/ Pipe_Finish

NextAdvanced ==
    \/ \E cfg \in Configs : load_personas_from_config(cfg)
    \/ \E files \in PromptDirs : load_personas_from_prompts_directory(files)
    \/ \E input \in Inputs, seq \in SeqsUpTo(AweNames, MaxSeq) :
          AWE_execute_workflow_async(input, seq)
    \/ process_async_begin
    \/ \E content \in Replies : parallel_return(content)
    \/ \E content \in Replies : sequential_return(content)
    \/ process_async_fail
    \/ AWE_return

InitPipelines ==
    /\ InitScripts
    /\ program \in {"persona_workflow", "advanced_persona_workflow"}

SpecPipelines == InitPipelines /\ [][NextPipelines]_vars

InitAdvanced ==
    /\ InitScripts
    /\ program = "advanced_workflow"

SpecAdvanced == InitAdvanced /\ [][NextAdvanced]_vars

NextScripts == NextPipelines \/ NextAdvanced

InitAllScripts ==
    /\ InitScripts
    /\ program \in {"persona_workflow", "advanced_persona_workflow", "advanced_workflow"}

SpecScripts == InitAllScripts /\ [][NextScripts]_vars

\* the persona sequences of the runs that are asked about
ChatSequences == {<<"legal">>, <<"finance">>}

\* AdvancedWorkflowEngine with its chat
NextAdvancedChat ==
    \/ \E cfg \in Configs : load_personas_from_config(cfg)
    \/ \E files \in PromptDirs : load_personas_from_prompts_directory(files)
    \/ \E input \in Inputs, seq \in ChatSequences :
          AWE_execute_workflow_async(input, seq)
    \/ process_async_begin
    \/ \E content \in Replies : parallel_return(content)
    \/ \E content \in Replies : sequential_return(content)
    \/ process_async_fail
    \/ AWE_return
    \/ \E message \in Questions, workflow_results \in ReturnedResults :
          AWE_chat_with_output(message, workflow_results)
    \/ \E content \in Replies : chat_with_output_return(content)
    \/ chat_with_output_fail

SpecAdvancedChat == InitAdvanced /\ [][NextAdvancedChat]_vars

----------------------------------------------------------------------------
(* Specification of the two servers *)

NextApi ==
    \/ \E persona_id \in RequestIds : API_get_persona(persona_id)
    \/ \E field \in JsonFields, template_ok \in BOOLEAN :
          API_create_persona(field, template_ok)
    \/ \E persona_id \in RequestIds : API_delete_persona(persona_id)
    \/ \E field \in JsonFields, persona_ids \in SeqsUpTo(WorkflowIds, MaxSeq),
          created_by \in {"u1"} :
          API_create_workflow(field, persona_ids, created_by)
    \/ \E workflow_id \in (DOMAIN we_workflows) \cup {UnknownWorkflowId},
          document \in Inputs, user_id \in Users :
          API_execute_workflow(workflow_id, document, user_id)
    \/ \E user_id \in Users : API_get_user_analyses(user_id)
    \/ persona_analysis_begin
    \/ \E content \in Replies : persona_analysis_return(content)
    \/ persona_analysis_fail
    \/ WE_assemble

NextSimple ==
    \/ \E persona_id \in RequestIds : SAPI_get_persona(persona_id)
    \/ \E field \in JsonFields, template_ok \in BOOLEAN :
          SAPI_create_persona(field, template_ok)
    \/ \E persona_id \in RequestIds : SAPI_delete_persona(persona_id)
    \/ \E field \in JsonFields, persona_ids \in SeqsUpTo(WorkflowIds, MaxSeq),
          created_by \in {"u1"} :
          SAPI_create_workflow(field, persona_ids, created_by)
    \/ \E workflow_id \in (DOMAIN swe_workflows) \cup {UnknownWorkflowId},
          document \in Inputs, user_id \in Users :
          SAPI_execute_analysis(workflow_id, document, user_id)
    \/ \E user_id \in Users : SAPI_get_user_analyses(user_id)
    \/ SWE_step
    \/ \E content \in Replies : SWE_return(content)
    \/ SWE_fail
    \/ SWE_finish

NextServers == NextApi \/ NextSimple

InitApi ==
    /\ InitScripts
    /\ program = "api"

InitSimple ==
    /\ InitScripts
    /\ program = "simplified_api"

InitBothServers ==
    /\ InitScripts
    /\ program \in {"api", "simplified_api"}

SpecApi == InitApi /\ [][NextApi]_vars

SpecSimple == InitSimple /\ [][NextSimple]_vars

SpecServers == InitBothServers /\ [][NextServers]_vars

----------------------------------------------------------------------------
(* Specification of the two servers with their chat systems *)

\* the analysis ids a caller names in chat requests
AnalysisIds == (DOMAIN we_results) \cup (DOMAIN swe_results) \cup {UnknownAnalysisId}

NextChat ==
    \/ \E analysis_id \in AnalysisIds, message \in Messages, user_id \in {"u1"} :
          API_send_chat_message(analysis_id, message, user_id)
    \/ \E content \in Replies : send_message_return(content)
    \/ llm_invoke_fail
    \/ \E analysis_id \in AnalysisIds : API_get_chat_history(analysis_id)
    \/ \E analysis_id \in AnalysisIds : API_clear_chat_history(analysis_id)
    \/ \E analysis_id \in AnalysisIds : API_get_analysis_summary(analysis_id)
    \/ \E content \in StructuredReplies : get_analysis_summary_return(content)
    \/ \E field \in JsonFields :
          \E analysis_ids \in IF field = "array"
                              THEN SeqsUpTo(AnalysisIds, MaxCompare) ELSE {<<>>} :
              API_compare_analyses(field, analysis_ids)
    \/ \E content \in StructuredReplies : get_comparative_analysis_return(content)

NextSimpleChat ==
    \/ \E analysis_id \in AnalysisIds, message \in Messages, user_id \in {"u1"} :
          SAPI_send_chat_message(analysis_id, message, user_id)
    \/ \E content \in Replies : simple_send_message_return(content)
    \/ simple_llm_invoke_fail
    \/ \E analysis_id \in AnalysisIds : SAPI_get_chat_history(analysis_id)
    \/ \E analysis_id \in AnalysisIds : SAPI_clear_chat_history(analysis_id)

\* the persona id lists of the workflows of the clients that chat
ChatWorkflows == {<<1>>}

\* the requests that produce the runs the chat is about, api.py
NextApiRuns ==
    \/ \E persona_ids \in ChatWorkflows : API_create_workflow("array", persona_ids, "u1")
    \/ \E workflow_id \in DOMAIN we_workflows :
          API_execute_workflow(workflow_id, "d1", "u1")
    \/ persona_analysis_begin
    \/ \E content \in Replies : persona_analysis_return(content)
    \/ persona_analysis_fail
    \/ WE_assemble

\* the requests that produce the runs the chat is about, simplified_api.py
NextSimpleRuns ==
    \/ \E persona_ids \in ChatWorkflows : SAPI_create_workflow("array", persona_ids, "u1")
    \/ \E workflow_id \in DOMAIN swe_workflows :
          SAPI_execute_analysis(workflow_id, "d1", "u1")
    \/ SWE_step
    \/ \E content \in Replies : SWE_return(content)
    \/ SWE_fail
    \/ SWE_finish

NextApiChat == NextApiRuns \/ NextChat

NextServersChat == NextApiRuns \/ NextChat \/ NextSimpleRuns \/ NextSimpleChat

SpecApiChat == InitApi /\ [][NextApiChat]_vars

SpecServersChat == InitBothServers /\ [][NextServersChat]_vars

\* the requests of api.py that name a persona, workflow or analysis by id
\* or carry a JSON field, next to the requests that produce runs and chat
NextApiHttp ==
    \/ NextApiChat
    \/ \E persona_id \in RequestIds : API_get_persona(persona_id)
    \/ \E field \in JsonFields : API_create_persona(field, TRUE)
    \/ \E persona_id \in RequestIds : API_delete_persona(persona_id)
    \/ \E field \in JsonFields \ {"array"} : API_create_workflow(field, <<>>, "u1")
    \/ \E workflow_id \in (DOMAIN we_workflows) \cup {UnknownWorkflowId} :
          API_get_workflow(workflow_id)
    \/ API_execute_workflow(UnknownWorkflowId, "d1", "u1")
    \/ \E analysis_id \in AnalysisIds : API_get_analysis(analysis_id)

SpecApiHttp == InitApi /\ [][NextApiHttp]_vars

\* api.py with /chat/send requests that arrive while others wait or run
NextApiConcurrent ==
    \/ NextApiRuns
    \/ \E analysis_id \in AnalysisIds, message \in Messages, user_id \in {"u1"} :
          HTTP_receive_send(analysis_id, message, user_id)
    \/ \E k \in DOMAIN handlers : handler_begin(k)
    \/ \E k \in DOMAIN handlers, content \in Replies : handler_return(k, content)
    \/ \E k \in DOMAIN handlers : handler_fail(k)

SpecApiConcurrent == InitApi /\ [][NextApiConcurrent]_vars

----------------------------------------------------------------------------
(* Specification of the two sequential engines with a Completion Client
   whose every call ends *)

NextSequential ==
    \/ \E c \in AddablePersonas : add_persona(c)
    \/ \E input \in Inputs, seq \in SeqsUpTo(SeqNames, MaxSeq) :
          APW_execute_workflow(input, seq)
    \/ Pipe_Step
    \/ \E response \in Replies : Pipe_Return(response)
    \/ Pipe_Fail
    \/ Pipe_Finish
    \/ NextSimple

InitSequential ==
    /\ InitScripts
    /\ program \in {"advanced_persona_workflow", "simplified_api"}

\* chain.run ends, with text or with a failure
PipeCallEnds == (\E response \in Replies : Pipe_Return(response)) \/ Pipe_Fail

\* llm.invoke of SimpleWorkflowEngine ends, with text or with a failure
SWECallEnds == (\E content \in Replies : SWE_return(content)) \/ SWE_fail

\* the thread of control of a run goes on whenever it can, and every call
\* of the Completion Client ends
SpecSequential ==
    /\ InitSequential
    /\ [][NextSequential]_vars
    /\ WF_vars(Pipe_Step)
    /\ WF_vars(PipeCallEnds)
    /\ WF_vars(Pipe_Finish)
    /\ WF_vars(SWE_step)
    /\ WF_vars(SWECallEnds)
    /\ WF_vars(SWE_finish)

----------------------------------------------------------------------------
(* Properties *)

\* the labeled blocks of the outputs of steps 1..k-1 of the activation wf
PriorBlocks(k) ==
    [j \in 1..(k - 1) |->
        [label |-> PersonasOf(wf.engine)[wf.seq[j]], text |-> wf.outs[j]]]

\* C1: in PersonaWorkflow and AdvancedPersonaWorkflow the context rendered
\* into the prompt of step N is exactly the labeled blocks of the outputs of
\* steps 1..N-1, in execution order, and nothing of steps N..end; for
\* [risk_assessment, summary_only] the second prompt holds the block labeled
\* "Risk Assessment Specialist" with the first step's output.
C1_ContextIsPriorOutputs ==
    /\ \A k \in 1..Len(wf.prompts) :
          /\ wf.prompts[k].persona = wf.seq[k]
          /\ wf.prompts[k].context = PriorBlocks(k)
    /\ (wf.seq = <<"risk_assessment", "summary_only">> /\ Len(wf.prompts) = 2)
          => wf.prompts[2].context =
                <<[label |-> "Risk Assessment Specialist", text |-> wf.outs[1]]>>

C1_Witness ==
    /\ wf.seq = <<"risk_assessment", "claims_analysis", "summary_only">>
    /\ Len(wf.prompts) = 3
    /\ wf.outs = <<"t1", "j1">>
    /\ wf.pc = "calling"

\* C3: every independent (parallel_processing) persona of a run of
\* AdvancedWorkflowEngine is rendered with the context as it was before the
\* independent phase began, which is empty, never with a peer's output, and
\* nothing is folded into the context while the independent phase lasts.
C3_IndependentSeeInitialContext ==
    /\ \A k \in 1..Len(aw.started) :
          aw.started[k].phase = "parallel" => aw.started[k].context = EmptyDict
    /\ aw.pc \in {"parallel", "calling_par"} => aw.context = EmptyDict

\* the positions of seq holding a persona with parallel_processing = flag
PositionsOf(seq, flag) ==
    {k \in 1..Len(seq) : awe_personas[seq[k]] = flag}

\* g lists the personas at the positions P of seq, by increasing position
ListsInOrder(g, seq, P) ==
    /\ Len(g) = Cardinality(P)
    /\ \A k \in P : g[Cardinality({m \in P : m < k}) + 1] = seq[k]

\* the output a persona n had last returned among the first m returns
LastOutput(n, m) ==
    LET ks == {k \in 1..m : aw.returned[k].persona = n}
        last == CHOOSE k \in ks : \A j \in ks : j <= k
    IN  aw.returned[last].output

C5_IndependentCallsOverlap ==
    (aw.pc \in {"sequential", "calling_seq", "returned", "raised"}
        /\ Len(aw.parallel_personas) >= 2)
    => aw.maxInflight >= 2

\* C6: when a name of persona_sequence is not registered, wherever it sits,
\* AdvancedWorkflowEngine.execute_workflow_async and
\* AdvancedPersonaWorkflow.execute_workflow raise a validation error and no
\* Completion Client call is made for any step.
C6_UnknownNameFailsBeforeAnyCall ==
    /\ (aw.pc # "idle" /\ \E k \in 1..Len(aw.seq) : aw.seq[k] \notin DOMAIN awe_personas)
          => (aw.pc = "raised" /\ aw.error = "ValueError" /\ aw.calls = 0)
    /\ (wf.engine = "AdvancedPersonaWorkflow"
          /\ \E k \in 1..Len(wf.seq) : wf.seq[k] \notin DOMAIN apw_personas)
          => (wf.pc = "raised" /\ wf.error = "ValueError" /\ wf.calls = 0)

C6_Witness ==
    /\ wf.engine = "AdvancedPersonaWorkflow"
    /\ wf.pc = "raised"
    /\ Len(wf.seq) = 3
    /\ wf.seq[1] \in DOMAIN apw_personas
    /\ wf.seq[2] \in DOMAIN apw_personas
    /\ wf.seq[3] \notin DOMAIN apw_personas

\* the prompts of a run hold, for each step, a block for the output of every
\* earlier step that has one
HoldsEarlierOutputs(prompts, results) ==
    \A k \in 1..Len(prompts) : \A j \in 1..(k - 1) :
        LET id == prompts[j].persona IN
        (id # prompts[k].persona /\ id \in DOMAIN results) =>
            \E b \in 1..Len(prompts[k].context) :
                /\ prompts[k].context[b].label = id
                /\ prompts[k].context[b].text = results[id].text

\* C2: in WorkflowEngine.execute_workflow and
\* SimpleWorkflowEngine.execute_workflow the prompt rendered for a persona
\* holds the outputs of the personas before it as labeled blocks, and none
\* of the outputs of the personas after it.
C2_PromptHoldsEarlierOutputs ==
    /\ HoldsEarlierOutputs(we.prompts,
                           [id \in DOMAIN we.results |-> we.results[id].analysis])
    /\ HoldsEarlierOutputs(swe.prompts, swe.results)
    /\ \A k \in 1..Len(we.prompts) : Len(we.prompts[k].context) <= k - 1
    /\ \A k \in 1..Len(swe.prompts) : Len(swe.prompts[k].context) <= k - 1

\* C7: a run of SimpleWorkflowEngine.execute_workflow on a workflow with a
\* persona id the registry does not have fails validation before any
\* Completion Client call: it makes no call for the other personas and
\* returns no result that leaves the absent id out.
C7_AbsentIdFailsValidation ==
    (swe.pc # "idle"
        /\ \E k \in 1..Len(swe.persona_ids) : swe.persona_ids[k] \notin DOMAIN swe.registry)
    => (swe.pc = "raised" /\ swe.calls = 0)

\* the ids of the custom personas that were created and have been deleted
DeletedCustom(personas) ==
    {id \in FirstCustomId..(FirstCustomId + next_uuid.persona - 1) :
        id \notin DOMAIN personas}

\* C8: after create custom persona P, create a workflow with P, delete P,
\* the execution of the workflow surfaces a resolution failure: neither
\* engine sends a prompt of P from a stale copy, and neither returns a
\* result of a run whose workflow names P.
C8_DeletedPersonaSurfacesFailure ==
    /\ \A k \in 1..Len(we.prompts) :
          we.prompts[k].persona \notin DeletedCustom(we.registry)
    /\ we.pc = "returned" =>
          \A k \in 1..Len(we.personas) :
              we.personas[k].id \notin DeletedCustom(we.registry)
    /\ swe.pc = "returned" =>
          \A k \in 1..Len(swe.persona_ids) :
              swe.persona_ids[k] \notin DeletedCustom(swe.registry)

\* the ids of a sequence of Persona objects
IdsOf(personas) ==
    [k \in 1..Len(personas) |-> personas[k].id]

\* C9: create_workflow of WorkflowEngine and of SimpleWorkflowEngine stores
\* the persona id list as given: the stored workflow has the ids of the
\* argument, in the same number and order, the ids not in the registry
\* included.
C9_StoresIdListVerbatim ==
    [][\A persona_ids \in SeqsUpTo(WorkflowIds, MaxSeq) :
          /\ API_create_workflow("array", persona_ids, "u1") =>
                IdsOf(we_workflows'[api'.arg].personas) = persona_ids
          /\ SAPI_create_workflow("array", persona_ids, "u1") =>
                swe_workflows'[api'.arg].persona_ids = persona_ids]_vars

\* the registry holds every built-in persona as constructed
BuiltinsPresent ==
    /\ \A id \in 1..NumBuiltin :
          id \in DOMAIN pm_personas /\ pm_personas[id] = BuiltinPersonas[id]
    /\ \A id \in 1..NumSimpleBuiltin :
          id \in DOMAIN spm_personas /\ spm_personas[id] = SimpleBuiltinPersonas[id]

\* C10: whatever registry operations came before, delete_persona on the id
\* of a built-in persona, or on an id the registry does not have, returns
\* False (the DELETE request answers 404) and leaves the registry as it was;
\* every built-in persona is in the registry in every reachable state.
C10_BuiltinsNeverDeleted ==
    /\ []BuiltinsPresent
    /\ [][\A persona_id \in RequestIds :
            /\ (API_delete_persona(persona_id)
                  /\ (persona_id \notin DOMAIN pm_personas
                        \/ ~pm_personas[persona_id].is_custom))
               => (~api'.ret /\ api'.status = 404 /\ pm_personas' = pm_personas)
            /\ (SAPI_delete_persona(persona_id)
                  /\ (persona_id \notin DOMAIN spm_personas
                        \/ ~spm_personas[persona_id].is_custom))
               => (~api'.ret /\ api'.status = 404 /\ spm_personas' = spm_personas)]_vars

C10_Witness ==
    /\ api.op = "delete_persona"
    /\ api.arg \in 1..NumBuiltin
    /\ ~api.ret
    /\ FirstCustomId \in DOMAIN pm_personas

\* C11: the persona of create_custom_persona is marked caller-defined and is
\* stored under an id the registry did not have; the first delete_persona of
\* that id returns True and removes it, and every later delete_persona of
\* the same id returns False.
C11_CustomPersonaDeletedOnce ==
    [][/\ \A template_ok \in BOOLEAN :
             /\ API_create_persona("array", template_ok) =>
                   /\ api'.arg \notin DOMAIN pm_personas
                   /\ api'.arg \in DOMAIN pm_personas'
                   /\ pm_personas'[api'.arg].is_custom
             /\ SAPI_create_persona("array", template_ok) =>
                   /\ api'.arg \notin DOMAIN spm_personas
                   /\ api'.arg \in DOMAIN spm_personas'
                   /\ spm_personas'[api'.arg].is_custom
       /\ \A persona_id \in RequestIds :
             /\ API_delete_persona(persona_id) =>
                   IF persona_id \in DOMAIN pm_personas /\ persona_id >= FirstCustomId
                   THEN api'.ret /\ persona_id \notin DOMAIN pm_personas'
                   ELSE persona_id \in DeletedCustom(pm_personas) =>
                           (~api'.ret /\ pm_personas' = pm_personas)
             /\ SAPI_delete_persona(persona_id) =>
                   IF persona_id \in DOMAIN spm_personas /\ persona_id >= FirstCustomId
                   THEN api'.ret /\ persona_id \notin DOMAIN spm_personas'
                   ELSE persona_id \in DeletedCustom(spm_personas) =>
                           (~api'.ret /\ spm_personas' = spm_personas)]_vars

C11_Witness ==
    /\ program = "api"
    /\ api.op = "delete_persona"
    /\ api.arg = FirstCustomId
    /\ ~api.ret
    /\ next_uuid.persona > 0
    /\ FirstCustomId \notin DOMAIN pm_personas

\* the set of the elements of a sequence
Range(seq) == {seq[k] : k \in 1..Len(seq)}

\* C12: the persona-id keys of the output mapping of every result that
\* WorkflowEngine.execute_workflow or SimpleWorkflowEngine.execute_workflow
\* produces are exactly the persona ids of the workflow in effect at
\* execution time (the ids the registry resolves), also when the Completion
\* Client call of a step failed.
C12_ResultKeysArePersonaIds ==
    /\ we.pc = "returned" =>
          DOMAIN we_results[api.arg].analysis_content = Range(IdsOf(we.personas))
    /\ swe.pc = "returned" =>
          DOMAIN swe_results[api.arg].results =
              {id \in Range(swe.persona_ids) : id \in DOMAIN swe.registry}

\* C13: a call of WorkflowEngine.execute_workflow on an existing workflow
\* whose Completion Client calls have all returned assembles one result with
\* all step outputs, the error list and the submitting user, returns it, and
\* stores it under its id, where get_analysis_result finds it.
C13_RunResultAssembledAndStored ==
    (we.pc \in {"returned", "raised"}
        /\ we.calls >= 1
        /\ we.calls = Len(we.personas)
        /\ we.completed = we.calls)
    => /\ we.pc = "returned"
       /\ api.status = 200
       /\ api.arg \in DOMAIN we_results
       /\ we_results[api.arg].analysis_content = we.results
       /\ we_results[api.arg].metadata.errors = we.errors
       /\ we_results[api.arg].metadata.user_id = we.user_id

\* C14: get_user_analyses(u) returns exactly the stored runs that were
\* submitted with user id u, in WorkflowEngine and in SimpleWorkflowEngine:
\* the run an execution has just stored is in the list of its submitter and
\* in the list of no other user.
C14_UserSeesOwnRunsOnly ==
    /\ we.pc = "returned" =>
          \A u \in Users :
              api.arg \in Range(WE_get_user_analyses(u)) <=> u = we.user_id
    /\ swe.pc = "returned" =>
          \A u \in Users :
              api.arg \in Range(SWE_get_user_analyses(u)) <=> u = swe.user_id

\* the steps of the activation swe that issue a Completion Client call: the
\* positions whose id the registry resolves to a persona whose template
\* formats
CallingSteps ==
    {k \in 1..Len(swe.persona_ids) :
        /\ swe.persona_ids[k] \in DOMAIN swe.registry
        /\ swe.registry[swe.persona_ids[k]].template_ok}

\* C15: in SimpleWorkflowEngine.execute_workflow a failed Completion Client
\* call of step k is caught, an error value takes the result slot of step k,
\* the loop goes on so that every later step issues its call, and a result
\* is stored and returned.
C15_FailedStepKeepsRunGoing ==
    /\ [][SWE_fail =>
            /\ swe'.results[swe.persona_ids[swe.i]].kind = "error"
            /\ swe'.pc = "loop"
            /\ swe'.i = swe.i + 1
            /\ swe'.calls = swe.calls]_vars
    /\ [](swe.pc = "raised" => swe.error = "NotFound")
    /\ [](swe.pc = "returned" =>
            /\ swe.calls = Cardinality(CallingSteps)
            /\ api.status = 200
            /\ api.arg \in DOMAIN swe_results
            /\ swe_results[api.arg].results = swe.results)

C15_Witness ==
    /\ swe.pc = "returned"
    /\ swe.persona_ids = <<1, FirstCustomId>>
    /\ swe.calls = 2
    /\ swe.results[1] = [kind |-> "error", text |-> "UpstreamFailure"]
    /\ swe.results[FirstCustomId].kind = "text"
    /\ api.arg \in DOMAIN swe_results

C17_HistoryRoundTrip ==
    /\ (chat_history = EmptyDict /\ simple_chat_history = EmptyDict)
    /\ [][/\ \A content \in Replies :
                /\ send_message_return(content) =>
                      LET a == ch.analysis_ids[1] IN
                      /\ Len(chat_history'[a]) = Len(get_chat_history(a)) + 1
                      /\ SubSeq(chat_history'[a], 1, Len(get_chat_history(a)))
                            = get_chat_history(a)
                      /\ chat_history'[a][Len(chat_history'[a])].user_message = ch.message
                      /\ chat_history'[a][Len(chat_history'[a])].assistant_response = content
                      /\ \A b \in DOMAIN chat_history : b # a => chat_history'[b] = chat_history[b]
                /\ simple_send_message_return(content) =>
                      LET a == ch.analysis_ids[1] IN
                      /\ simple_chat_history'[a] =
                            Append(simple_get_chat_history(a),
                                   [analysis_id |-> a, message |-> ch.message,
                                    response |-> content])
                      /\ \A b \in DOMAIN simple_chat_history :
                            b # a => simple_chat_history'[b] = simple_chat_history[b]
          /\ \A a \in AnalysisIds :
                /\ API_clear_chat_history(a) =>
                      /\ a \notin DOMAIN chat_history'
                      /\ \A b \in DOMAIN chat_history : b # a => chat_history'[b] = chat_history[b]
                /\ SAPI_clear_chat_history(a) =>
                      /\ a \notin DOMAIN simple_chat_history'
                      /\ \A b \in DOMAIN simple_chat_history :
                            b # a => simple_chat_history'[b] = simple_chat_history[b]
                /\ API_get_chat_history(a) => api'.body = get_chat_history(a)
                /\ SAPI_get_chat_history(a) => api'.body = simple_get_chat_history(a)
          /\ chat_history' # chat_history =>
                \/ \E content \in Replies : send_message_return(content)
                \/ \E a \in AnalysisIds : API_clear_chat_history(a)
          /\ simple_chat_history' # simple_chat_history =>
                \/ \E content \in Replies : simple_send_message_return(content)
                \/ \E a \in AnalysisIds : SAPI_clear_chat_history(a)]_vars

C17_Witness ==
    /\ program = "api"
    /\ ch.op = "send_message"
    /\ ch.pc = "returned"
    /\ Cardinality(DOMAIN we_results) = 1
    /\ \E a \in DOMAIN chat_history :
          /\ Len(chat_history[a]) = 1
          /\ chat_history[a][1].id = FirstMessageId + 1

\* a step of get_analysis_summary or of get_comparative_analysis: the entry
\* up to the Completion Client call or to the refusal, the return of the
\* call, the failure of the call
SummaryOrCompareStep ==
    \/ \E a \in AnalysisIds : API_get_analysis_summary(a)
    \/ \E content \in StructuredReplies : get_analysis_summary_return(content)
    \/ \E field \in JsonFields, analysis_ids \in SeqsUpTo(AnalysisIds, MaxCompare) :
          API_compare_analyses(field, analysis_ids)
    \/ \E content \in StructuredReplies : get_comparative_analysis_return(content)
    \/ (llm_invoke_fail /\ ch.op \in {"get_analysis_summary", "get_comparative_analysis"})

\* C18: get_analysis_summary and get_comparative_analysis of ChatSystem are
\* reads: whether they succeed, fall back or raise, chat_history,
\* conversation_memories, the run store and the workflow store stay as they
\* were; whether a run has a history changes only through send_message and
\* clear_chat_history.
C18_SummaryAndCompareAreReads ==
    [][/\ SummaryOrCompareStep =>
             UNCHANGED <<chat_history, conversation_memories, we_results, we_workflows>>
       /\ DOMAIN chat_history' # DOMAIN chat_history =>
             \/ \E content \in Replies : send_message_return(content)
             \/ \E a \in AnalysisIds : API_clear_chat_history(a)]_vars

C18_Witness ==
    /\ ch.op = "get_analysis_summary"
    /\ ch.pc = "returned"
    /\ api.body[1].from = "fallback"
    /\ chat_history # EmptyDict

\* C19: whatever text the Completion Client replies, get_analysis_summary on
\* an existing run returns, and its summary has the six-field summary shape:
\* the parsed reply when the reply is JSON of that shape, the fixed fallback
\* otherwise (text that is no JSON, or JSON of another shape such as a
\* number); get_comparative_analysis likewise for the comparison shape.
C19_SummaryAlwaysHasShape ==
    /\ (ch.op = "get_analysis_summary" /\ ch.pc = "returned") =>
          /\ api.status = 200
          /\ api.body[1].shape = "summary"
    /\ (ch.op = "get_comparative_analysis" /\ ch.pc = "returned") =>
          /\ api.status = 200
          /\ api.body[1].shape = "comparison"

\* the ids of the comparison request in hand that the run store resolves
ResolvedOfRequest ==
    SelectSeq(ch.analysis_ids, LAMBDA id : id \in DOMAIN we_results)

\* C20: get_comparative_analysis is refused with no Completion Client call
\* when fewer than 2 run ids are given and when fewer than 2 of the given
\* ids resolve to stored runs; a call is made only with at least 2 resolved
\* runs.
C20_CompareNeedsTwoRuns ==
    ch.op = "get_comparative_analysis" =>
        /\ (Len(ch.analysis_ids) < 2 \/ Len(ResolvedOfRequest) < 2)
              => (ch.pc = "raised" /\ ch.calls = 0 /\ ch.prompts = <<>>)
        /\ ch.calls >= 1 => Len(ResolvedOfRequest) >= 2

C20_Witness ==
    /\ ch.op = "get_comparative_analysis"
    /\ ch.pc = "raised"
    /\ Len(ch.analysis_ids) = 2
    /\ Len(ResolvedOfRequest) = 1
    /\ ch.calls = 0
    /\ api.status = 400

\* the messages a conversation memory holds after the turns of a history of
\* ChatSystem: add_user_message, add_ai_message per turn (lines 108-109)
TurnsOf(history) ==
    [k \in 1..(2 * Len(history)) |->
        IF k % 2 = 1
        THEN [role |-> "human", text |-> history[(k + 1) \div 2].user_message]
        ELSE [role |-> "ai", text |-> history[k \div 2].assistant_response]]

\* the same for the ChatMessage of SimpleChatSystem (fields message, response)
SimpleTurnsOf(history) ==
    [k \in 1..(2 * Len(history)) |->
        IF k % 2 = 1
        THEN [role |-> "human", text |-> history[(k + 1) \div 2].message]
        ELSE [role |-> "ai", text |-> history[k \div 2].response]]

\* C21: in both chat systems the request sent to the Completion Client for
\* an ask on a run holds the user message and the assistant reply of every
\* earlier turn of the run since its last clear, in order, followed by the
\* new user message
C21_PromptHoldsEarlierTurns ==
    (ch.op = "send_message" /\ ch.pc = "calling") =>
        LET prompt == ch.prompts[1]
            analysis_id == ch.analysis_ids[1]
        IN  /\ prompt.message = ch.message
            /\ prompt.memory =
                  IF program = "api"
                  THEN TurnsOf(get_chat_history(analysis_id))
                  ELSE SimpleTurnsOf(simple_get_chat_history(analysis_id))

\* the run a step of ChatSystem is about: the analysis id of a clear, or of
\* a send_message in any of its steps
TouchedRuns ==
    IF api'.op = "clear_chat_history" THEN {api'.arg}
    ELSE IF ch'.op = "send_message" THEN {ch'.analysis_ids[1]}
    ELSE {}

\* the run ids that have a history or a conversation memory before or after
\* a step
ChatRuns ==
    (DOMAIN chat_history) \cup (DOMAIN chat_history')
       \cup (DOMAIN conversation_memories) \cup (DOMAIN conversation_memories')

\* C22: in ChatSystem a send_message or clear_chat_history on run A leaves
\* the history and the conversation memory of every other run B as they
\* were, and the prompt built for an ask on B holds the turns of B and no
\* turn of another run
C22_RunsAreIndependent ==
    /\ [][program = "api" =>
            \A B \in ChatRuns \ TouchedRuns :
               /\ (B \in DOMAIN chat_history) = (B \in DOMAIN chat_history')
               /\ (B \in DOMAIN conversation_memories)
                     = (B \in DOMAIN conversation_memories')
               /\ B \in DOMAIN chat_history => chat_history'[B] = chat_history[B]
               /\ B \in DOMAIN conversation_memories =>
                     conversation_memories'[B] = conversation_memories[B]]_vars
    /\ [](program = "api" /\ ch.op = "send_message" /\ ch.pc = "calling" =>
            LET B == ch.analysis_ids[1] IN
            /\ \A k \in 1..Len(get_chat_history(B)) :
                  get_chat_history(B)[k].analysis_id = B
            /\ ch.prompts[1].memory = TurnsOf(get_chat_history(B)))

\* an ask on run B is at the Completion Client while another run A has a
\* turn in its history and in its memory
C22_Witness ==
    /\ program = "api"
    /\ ch.op = "send_message"
    /\ ch.pc = "calling"
    /\ \E A \in DOMAIN chat_history :
          /\ A # ch.analysis_ids[1]
          /\ chat_history[A] # <<>>
          /\ conversation_memories[A] # <<>>
          /\ ch.prompts[1].memory = <<>>

\* C23: chat_with_output keeps its message history per run: the messages
\* sent for a question about one set of workflow results hold no turn of an
\* earlier question that was asked about a different set of workflow results
C23_ChatHistoryIsPerRun ==
    cw.pc = "calling" =>
        \A t \in 1..Len(chat_asked) :
            2 * t <= Len(cw.prompts[1].history) =>
                chat_asked[t] = cw.workflow_results

\* a step of api.py is a request that names an id its store does not have:
\* a persona id, a workflow id or an analysis id
NamesUnknownId ==
    \/ api'.op \in {"get_persona", "delete_persona"} /\ api'.arg \notin DOMAIN pm_personas
    \/ api'.op = "get_workflow" /\ api'.arg \notin DOMAIN we_workflows
    \/ api'.op = "execute_workflow" /\ we'.pc = "raised" /\ we'.error = "NotFound"
    \/ api'.op = "get_analysis" /\ api'.arg \notin DOMAIN we_results
    \/ /\ api'.op \in {"send_chat_message", "get_analysis_summary"}
       /\ ch'.pc = "raised"
       /\ ch'.error = "NotFound"

\* C24: through api.py every request that names an unknown persona id,
\* workflow id or analysis id is answered 404, makes no Completion Client
\* call and leaves every store as it was
C24_UnknownIdIsNotFound ==
    [][program = "api" /\ NamesUnknownId =>
          /\ api'.status = 404
          /\ we'.calls = 0
          /\ ch'.calls = 0
          /\ UNCHANGED <<pm_personas, we_workflows, we_results,
                         chat_history, conversation_memories>>]_vars

\* a step of api.py is a request whose JSON-array field is refused by the
\* handler: analysis_focus of POST /personas, persona_ids of POST
\* /workflows, analysis_ids of POST /chat/compare
RefusesJsonField ==
    \/ api'.op \in {"create_persona", "create_workflow"} /\ ~api'.ret
    \/ /\ api'.op = "compare_analyses"
       /\ ch'.pc = "raised"
       /\ ch'.error = "BadRequest"

\* C25: through api.py a request whose JSON-array field is not parseable,
\* or is JSON but no array, or for /chat/compare is an array of fewer than 2
\* ids, is answered 400, makes no Completion Client call and leaves the
\* registry, the workflow store and the run store as they were
C25_MalformedFieldIsBadRequest ==
    [][program = "api" /\ RefusesJsonField =>
          /\ api'.status = 400
          /\ we'.calls = 0
          /\ ch'.calls = 0
          /\ UNCHANGED <<pm_personas, we_workflows, we_results>>]_vars

\* the position of the ChatMessage with the id in the history, 0 if none
PositionOf(history, id) ==
    IF \E p \in 1..Len(history) : history[p].id = id
    THEN CHOOSE p \in 1..Len(history) : history[p].id = id
    ELSE 0

\* C26: for every interleaving of concurrent send_message requests on one
\* run id, the history holds the turn of every request that returned exactly
\* once, and the prompt of each stored turn was built from all the turns
\* stored before it
C26_ConcurrentSendsAreSerialized ==
    \A k \in DOMAIN handlers :
        handlers[k].pc = "returned" =>
            LET history == get_chat_history(handlers[k].analysis_id)
                at == PositionOf(history, handlers[k].stored)
            IN  /\ Cardinality({p \in 1..Len(history) :
                                   history[p].id = handlers[k].stored}) = 1
                /\ handlers[k].prompts[1].memory = TurnsOf(SubSeq(history, 1, at - 1))

\* two requests on one run were waiting together, the one received second
\* was run first, and both have returned
C26_Witness ==
    /\ Len(handlers) >= 2
    /\ handlers[1].pc = "returned"
    /\ handlers[2].pc = "returned"
    /\ handlers[1].analysis_id = handlers[2].analysis_id
    /\ handlers[2].stored < handlers[1].stored
    /\ Len(get_chat_history(handlers[1].analysis_id)) = 2

\* a call of the run of SimpleWorkflowEngine has failed and its error text
\* is in the results
SWE_CallFailed ==
    \E id \in DOMAIN swe.results :
        swe.results[id] = [kind |-> "error", text |-> "UpstreamFailure"]

\* C27: with a Completion Client whose every call ends, every
\* execute_workflow of AdvancedPersonaWorkflow and of SimpleWorkflowEngine
\* terminates, a step is rendered only when the call of the step before it
\* has ended, and a run makes at most one call per entry of its persona
\* sequence, exactly one per entry when no call fails
C27_RunsTerminateOneCallPerEntry ==
    /\ Busy(wf) ~> ~Busy(wf)
    /\ Busy(swe) ~> ~Busy(swe)
    /\ [][/\ wf'.calls > wf.calls =>
                wf.pc = "loop" /\ wf'.calls = wf.calls + 1 /\ wf.calls = wf.i - 1
          /\ swe'.calls > swe.calls =>
                swe.pc = "loop" /\ swe'.calls = swe.calls + 1]_vars
    /\ [](/\ wf.calls <= Len(wf.seq)
          /\ wf.pc = "returned" => wf.calls = Len(wf.seq)
          /\ swe.calls <= Len(swe.persona_ids)
          /\ (swe.pc = "returned" /\ ~SWE_CallFailed) =>
                swe.calls = Len(swe.persona_ids))

\* C28: a ChatSystem.send_message that raises, for an unknown analysis id
\* or a failed Completion Client call, appends no turn: from its first step
\* to its raise the history of the run and the content of its conversation
\* memory stay as they were, and the prompt of an ask holds the stored
\* turns of the run and nothing else
C28_FailedSendAppendsNothing ==
    /\ [][(program = "api" /\ ch'.op = "send_message"
              /\ ch'.pc \in {"calling", "raised"}) =>
            LET analysis_id == ch'.analysis_ids[1] IN
            /\ chat_history' = chat_history
            /\ MemoryBuffer(conversation_memories', analysis_id)
                  = MemoryBuffer(conversation_memories, analysis_id)]_vars
    /\ [](program = "api" /\ ch.op = "send_message" /\ ch.pc = "calling" =>
            /\ Len(ch.prompts[1].memory) = 2 * Len(get_chat_history(ch.analysis_ids[1]))
            /\ ch.prompts[1].memory
                  = MemoryBuffer(conversation_memories, ch.analysis_ids[1]))

\* the call of an ask on a run that has a stored turn has failed
C28_Witness ==
    /\ program = "api"
    /\ ch.op = "send_message"
    /\ ch.pc = "raised"
    /\ ch.error = "UpstreamFailure"
    /\ Len(get_chat_history(ch.analysis_ids[1])) = 1
    /\ Len(conversation_memories[ch.analysis_ids[1]]) = 2

\* the entries of persona_ids of the run of SimpleWorkflowEngine that the
\* registry resolves
ResolvedSteps ==
    {k \in 1..Len(swe.persona_ids) : swe.persona_ids[k] \in DOMAIN swe.registry}

\* the result mapping of the run holds one key per distinct resolved id,
\* whose value is the result (output or error text) of the last entry with
\* that id
LastOccurrenceWins ==
    /\ DOMAIN swe.results = {swe.persona_ids[k] : k \in ResolvedSteps}
    /\ Len(swe.outs) = Cardinality(ResolvedSteps)
    /\ \A id \in DOMAIN swe.results :
          LET last == CHOOSE k \in 1..Len(swe.outs) :
                         /\ swe.outs[k].persona_id = id
                         /\ \A j \in (k + 1)..Len(swe.outs) : swe.outs[j].persona_id # id
          IN  swe.results[id] = swe.outs[last].result

\* C29 as stated: a run of SimpleWorkflowEngine.execute_workflow makes as
\* many Completion Client calls as persona_ids has entries that resolve in
\* the registry, repeated ids counted, and its result mapping holds one key
\* per distinct resolved id with the result of the last entry of that id
C29_CallsEqualResolvedEntries ==
    swe.pc = "returned" =>
        /\ swe.calls = Cardinality(ResolvedSteps)
        /\ LastOccurrenceWins

\* C29 as amended: a run of SimpleWorkflowEngine.execute_workflow makes as
\* many Completion Client calls as persona_ids has entries that resolve in
\* the registry and whose template renders, repeated ids counted, and its
\* result mapping holds one key per distinct resolved id with the result
\* (output or error text) of the last entry of that id
C29_CallsEqualRenderedEntries ==
    swe.pc = "returned" =>
        /\ swe.calls = Cardinality(CallingSteps)
        /\ Len(swe.prompts) = Cardinality(CallingSteps)
        /\ LastOccurrenceWins

\* a run over the same persona twice has returned: two calls, one key, and
\* the second output is the one kept
C29_Witness ==
    /\ swe.pc = "returned"
    /\ swe.persona_ids = <<1, 1>>
    /\ swe.calls = 2
    /\ DOMAIN swe.results = {1}
    /\ swe.outs[1].result # swe.outs[2].result
    /\ swe.results[1] = swe.outs[2].result

\* C30: ChatSystem.clear_chat_history returns True for every analysis id,
\* so DELETE /chat/{analysis_id}/history of api.py never answers 404; after
\* it the run has an empty history and no conversation memory, and a clear
\* of a run that is already clear changes nothing
C30_ClearAlwaysSucceeds ==
    [][(program = "api" /\ api'.op = "clear_chat_history") =>
          /\ api'.ret
          /\ api'.status = 200
          /\ api'.arg \notin DOMAIN chat_history'
          /\ api'.arg \notin DOMAIN conversation_memories'
          /\ \A other \in (DOMAIN chat_history) \ {api'.arg} :
                other \in DOMAIN chat_history'
          /\ (api'.arg \notin DOMAIN chat_history
                /\ api'.arg \notin DOMAIN conversation_memories) =>
                UNCHANGED <<chat_history, conversation_memories>>]_vars

\* the history of an analysis id that no run has was cleared with success,
\* while a run has a stored turn
C30_Witness ==
    /\ program = "api"
    /\ api.op = "clear_chat_history"
    /\ api.arg = UnknownAnalysisId
    /\ api.status = 200
    /\ \E id \in DOMAIN chat_history : chat_history[id] # <<>>

====
